---------------------------- MODULE Spec2Model ----------------------------
(***************************************************************************)
(* Grid construction and aggregation of                                  *)
(* octolyzer/measure/bscan/thickness_maps/grid.py, and the metadata        *)
(* inference of analyse in octolyzer/analyse_slo.py.                       *)
(*                                                                         *)
(* An array of shape (h, w) is a function on the pixels <<row, col>>; a    *)
(* mask that only holds 0 and 1 is the set of its non-zero pixels.  A      *)
(* coordinate pair named center / centre / fovea                           *)
(* is (x, y) as in the source, so center[1] is a row and center[0] a       *)
(* column.  Real numbers of the source (grid_size / scalex, the linspace   *)
(* values, centroids, slopes) are exact fractions num/den, den > 0.        *)
(* Python's None for a centre is the empty tuple << >>, and an integer     *)
(* fovea n is the 1-tuple << n >>.                                         *)
(***************************************************************************)
EXTENDS Integers, Sequences, FiniteSets, TLC

VARIABLES
    default_logging,  \* the list object bound to `logging=[]` of create_square_grid
    call,             \* the last call: function and arguments
    ret,              \* what the last call returned or raised
    thick_map,        \* the caller's array object passed to measure_grid as thick_map
    frame             \* analyse of analyse_slo.py: its position and its local variables

vars == <<default_logging, call, ret, thick_map, frame>>

-----------------------------------------------------------------------------
(* Bounds of the model *)

MaxDim == 6          \* largest image height / width of the square-grid calls
MaxGridSize == 9     \* largest grid_size (in the unit of scalex * pixel)
MaxLogLen == 4       \* no further call once the shared default list is this long

-----------------------------------------------------------------------------
(* Arithmetic helpers *)

Abs(n) == IF n < 0 THEN -n ELSE n

Sign(n) == IF n > 0 THEN 1 ELSE IF n < 0 THEN -1 ELSE 0

\* ndarray.astype(int) of the fraction n/d (d > 0): truncation toward zero
AsTypeInt(n, d) == IF n >= 0 THEN n \div d ELSE -((-n) \div d)

\* np.round of the fraction n/d (d > 0): to nearest, ties to even
NpRound(n, d) ==
    LET f == n \div d
        r == n - f * d
    IN  IF 2 * r < d THEN f
        ELSE IF 2 * r > d THEN f + 1
        ELSE IF f % 2 = 0 THEN f ELSE f + 1

Pixels(h, w) == (0 .. h - 1) \X (0 .. w - 1)

-----------------------------------------------------------------------------
(* create_square_grid, grid.py 349-456, for angle = 0 *)

\* the three messages of the grid-too-large fallback, lines 411-420
FallbackMessages(N_grid, grid_size) ==
    << [text |-> "grid unavailable given field of view.", n |-> N_grid, size |-> grid_size],
       [text |-> "Failed to measure square grid with a width of", n |-> N_grid, size |-> grid_size],
       [text |-> "Measuring entire SLO image, using centre of image, not fovea/optic-disc.",
        n |-> 0, size |-> 0] >>

IsFallbackNotice(m) ==
    m.text \in { "grid unavailable given field of view.",
                 "Failed to measure square grid with a width of",
                 "Measuring entire SLO image, using centre of image, not fovea/optic-disc." }

\* a slip that swaps height and width
OnesMaskTransposed(img_shape) == [ p \in Pixels(img_shape[2], img_shape[1]) |-> 1 ]

\* np.ones(img_shape), line 421
OnesMask(img_shape) == [ p \in Pixels(img_shape[1], img_shape[2]) |-> 1 ]

\* mask.astype(bool): the non-zero pixels of an array
Support(m) == { p \in DOMAIN m : m[p] # 0 }

\* lines 395-397
ForceCenter(center, img_shape) ==
    IF center = << >>
    THEN << AsTypeInt(img_shape[1], 2), AsTypeInt(img_shape[2], 2) >>
    ELSE center

\* np.linspace(c - width/2, c + width/2, N_grid+1)[i] as a fraction, width =
\* grid_size / scalex (line 401): numerator and denominator
LineNum(c, scalex, N_grid, grid_size, i) ==
    2 * N_grid * scalex * c - N_grid * grid_size + 2 * i * grid_size

LineDen(scalex, N_grid) == 2 * N_grid * scalex

\* lines 404-405: the N_grid+1 grid lines around coordinate c, .astype(int)
BoxIdx(c, scalex, N_grid, grid_size) ==
    [ i \in 1 .. N_grid + 1 |->
        AsTypeInt(LineNum(c, scalex, N_grid, grid_size, i - 1), LineDen(scalex, N_grid)) ]

\* a slip that lets a grid line sit on the image border
InsideClosed(v, dim) == v >= 0 /\ v <= dim

\* line 406
InsideStrict(v, dim) == v > 0 /\ v < dim

Condition(box_idx_lr, box_idx_ud, h, w) ==
    /\ \A i \in DOMAIN box_idx_lr : InsideStrict(box_idx_lr[i], w)
    /\ \A i \in DOMAIN box_idx_ud : InsideStrict(box_idx_ud[i], h)

\* draw.rectangle(start, extent=width), line 430: rows and columns it lists
RectangleEnd(start, scalex, grid_size) == NpRound(start * scalex + grid_size, scalex)

\* lines 431-432: zeros with 1 on the rows and columns of the rectangle
AllMask(img_shape, row_start, row_end, col_start, col_end) ==
    [ p \in Pixels(img_shape[1], img_shape[2]) |->
        IF p[1] >= row_start /\ p[1] < row_end /\ p[2] >= col_start /\ p[2] < col_end
        THEN 1 ELSE 0 ]

\* a slip that makes the slice include its end row and column
InSliceInclusive(p, x1, x2, y1, y2) == p[1] >= x1 /\ p[1] <= x2 /\ p[2] >= y1 /\ p[2] <= y2

\* the slice x1:x2, y1:y2 of an array (a slice is clipped to the array)
InSlice(p, x1, x2, y1, y2) == p[1] >= x1 /\ p[1] < x2 /\ p[2] >= y1 /\ p[2] < y2

\* grid = all_mask.copy(); grid[x1:x2, y1:y2] = 2; grid - all_mask, lines 437-439
CellMask(all_mask, x1, x2, y1, y2) ==
    [ p \in DOMAIN all_mask |->
        (IF InSlice(p, x1, x2, y1, y2) THEN 2 ELSE all_mask[p]) - all_mask[p] ]

\* The call with the list object `logging` holding `log_in`.  tuple: the
\* returned tuple (its length is what the caller unpacks); logging: the
\* contents of the list object after the call.
create_square_grid(scalex, center, img_shape, N_grid, grid_size, log_in) ==
    LET h == img_shape[1]
        w == img_shape[2]
        c == ForceCenter(center, img_shape)
        box_idx_lr == BoxIdx(c[2], scalex, N_grid, grid_size)
        box_idx_ud == BoxIdx(c[1], scalex, N_grid, grid_size)
        condition == Condition(box_idx_lr, box_idx_ud, h, w)
        log_out == log_in \o FallbackMessages(N_grid, grid_size)
        row_end == RectangleEnd(box_idx_lr[1], scalex, grid_size)
        col_end == RectangleEnd(box_idx_ud[1], scalex, grid_size)
        all_mask == AllMask(img_shape, box_idx_lr[1], row_end, box_idx_ud[1], col_end)
        \* cells are appended for i over rows (outer loop), j over columns
        cellAt(k) ==
            LET i == (k - 1) \div N_grid
                j == (k - 1) % N_grid
            IN  [ i |-> i, j |-> j,
                  mask |-> CellMask(all_mask, box_idx_lr[i + 1], box_idx_lr[i + 2],
                                    box_idx_ud[j + 1], box_idx_ud[j + 2]) ]
        cells == [ k \in 1 .. N_grid * N_grid |-> cellAt(k) ]
    IN  IF ~condition
        THEN [ raised |-> "no", fallback |-> TRUE,
               tuple |-> << OnesMask(img_shape), log_out >>,
               logging |-> log_out ]
        ELSE IF row_end > h \/ col_end > w
        THEN \* all_mask[rr,cc] = 1 indexes past the array, line 432
             [ raised |-> "IndexError", fallback |-> FALSE, tuple |-> << >>,
               logging |-> log_in ]
        ELSE [ raised |-> "no", fallback |-> FALSE,
               tuple |-> << [ k \in DOMAIN cells |-> cells[k].mask ],
                            [ k \in DOMAIN cells |-> << cells[k].i, cells[k].j >> ],
                            log_in >>,
               logging |-> log_in ]


-----------------------------------------------------------------------------
(* measure_grid, grid.py 502-675: the square branch, lines 566-604 *)

DigitChars == << "0", "1", "2", "3", "4", "5", "6", "7", "8", "9" >>

\* str(n) of an integer n >= 0, as its sequence of characters
RECURSIVE DecimalDigits(_)
DecimalDigits(n) ==
    IF n < 10 THEN << DigitChars[n + 1] >>
    ELSE Append(DecimalDigits(n \div 10), DigitChars[(n % 10) + 1])

\* str(n) of an integer: a minus sign before the digits of a negative one
Str(n) == IF n < 0 THEN << "-" >> \o DecimalDigits(-n) ELSE DecimalDigits(n)

\* line 588: f"{ud_str}.{lr_str}"
Quadrant(ud_str, lr_str) == Str(ud_str) \o << "." >> \o Str(lr_str)

\* a slip that numbers the columns of both eyes from the left
SquareNameUnmirrored(l, grid_size, eye) == Quadrant(grid_size - l[1], l[2] + 1)

\* lines 585-588, for the label l = (ud, lr)
SquareName(l, grid_size, eye) ==
    Quadrant(grid_size - l[1], IF eye = "Left" THEN grid_size - l[2] ELSE l[2] + 1)

\* line 604: np.sum(np.array(grid_masks), axis=0) > 0
AllMaskOf(grid_masks) ==
    { p \in DOMAIN grid_masks[1] : \E k \in DOMAIN grid_masks : grid_masks[k][p] > 0 }

\* `grid_masks, labels, log = create_square_grid(...)` needs a 3-tuple; the
\* default `logging` list of create_square_grid is used (grid_kwds holds
\* N_grid and grid_size only).
measure_grid_square(img_shape, fovea, scale, eye, N_grid, grid_size, log_in) ==
    LET f == IF Len(fovea) = 1 THEN << fovea[1], fovea[1] >> ELSE fovea      \* 575-576
        r == create_square_grid(scale, f, img_shape, N_grid, grid_size, log_in)
    IN  IF r.raised # "no"
        THEN [ raised |-> r.raised, logging |-> r.logging ]
        ELSE IF Len(r.tuple) # 3
        THEN [ raised |-> "ValueError", logging |-> r.logging ]
        ELSE LET grid_masks == r.tuple[1]
                 labels == r.tuple[2]
                 log == r.tuple[3]
             IN  [ raised |-> "no", logging |-> r.logging,
                   grid_masks |-> grid_masks,
                   grid_subgrids |-> [ k \in DOMAIN labels |-> SquareName(labels[k], N_grid, eye) ],
                   all_mask |-> AllMaskOf(grid_masks),
                   logging_list |-> log ]                                \* 567, 581

-----------------------------------------------------------------------------
(* Circular grids.
   A mask is the set of its non-zero pixels <<row, col>>.  An angle is a
   pair <<deg, eps>> standing for deg + eps * 1e-8 degrees, deg an integer
   and eps in {0, 1}: create_peripapillary_grid adds 1e-8 to its angle.
   The angle of a pixel is arctan(dx / (dy + 1e-8)): its value for the exact
   ratio dx / dy, moved towards zero magnitude by less than 1e-6 degrees and
   by more than 1e-8 degrees while |dx|, |dy| < 28.  Comparisons of a pixel
   angle with a threshold n - eps * 1e-8 are decided on the exact ratio and,
   where that ties (n in {0, 45, -45, 90, -90}), on the two offsets. *)

MaxRadius == 5       \* largest radius of a disk mask

Min(a, b) == IF a < b THEN a ELSE b

\* body(v), with v computed once and bound as a value, as a local variable
\* of the code is.
With(v, body(_)) == CHOOSE r \in { body(x) : x \in { v } } : TRUE

RECURSIVE GCD(_, _)
GCD(a, b) == IF b = 0 THEN a ELSE GCD(b, a % b)

\* The fraction n / d in lowest terms with a positive denominator.
Frac(n, d) ==
    LET g == GCD(Abs(n), Abs(d))
    IN  << Sign(d) * (n \div g), Abs(d) \div g >>

FracSub(a, b) == Frac(a[1] * b[2] - b[1] * a[2], a[2] * b[2])

FracMul(a, b) == Frac(a[1] * b[1], a[2] * b[2])

FracDiv(a, b) == Frac(a[1] * b[2], a[2] * b[1])

\* np.sqrt(dx^2 + dy^2) <= radius, for an integer radius.
WithinRadius(p, center, radius) ==
    (p[2] - center[1]) * (p[2] - center[1])
        + (p[1] - center[2]) * (p[1] - center[2]) <= radius * radius

create_circular_mask(img_shape, center, radius) ==
    LET h == img_shape[1]
        w == img_shape[2]
        c == IF center = << >> THEN << AsTypeInt(h, 2), AsTypeInt(w, 2) >> ELSE center
        r == IF radius = << >>
             THEN Min(Min(c[1], c[2]), Min(w - c[1], h - c[2]))
             ELSE radius[1]
    IN  { p \in Pixels(h, w) : WithinRadius(p, c, r) }

\* Sum over the mask of coordinate k, for the coordinate values 0 .. v.
RECURSIVE CoordSum(_, _, _)
CoordSum(mask, k, v) ==
    IF v < 0 THEN 0
    ELSE v * Cardinality({ p \in mask : p[k] = v }) + CoordSum(mask, k, v - 1)

MaxCoord(mask, k) ==
    LET vs == { p[k] : p \in mask }
    IN  CHOOSE v \in vs : \A u \in vs : u <= v

\* meas.centroid: << mean row, mean col >> as fractions.
Centroid(mask) ==
    LET n == Cardinality(mask)
    IN  << Frac(CoordSum(mask, 1, MaxCoord(mask, 1)), n),
           Frac(CoordSum(mask, 2, MaxCoord(mask, 2)), n) >>

\* meas.centroid(circle_mask).astype(int)
IntCentroid(mask) ==
    LET c == Centroid(mask)
    IN  << AsTypeInt(c[1][1], c[1][2]), AsTypeInt(c[2][1], c[2][2]) >>

\* floor(1e5 * tan(n degrees)) for n = 1 .. 89; tan(45 degrees) = 1 exactly
\* and is compared as such.
TanTable ==
    << 1745, 3492, 5240, 6992, 8748, 10510, 12278, 14054, 15838, 17632,
       19438, 21255, 23086, 24932, 26794, 28674, 30573, 32491, 34432, 36397,
       38386, 40402, 42447, 44522, 46630, 48773, 50952, 53170, 55430, 57735,
       60086, 62486, 64940, 67450, 70020, 72654, 75355, 78128, 80978, 83909,
       86928, 90040, 93251, 96568, 100000, 103553, 107236, 111061, 115036, 119175,
       123489, 127994, 132704, 137638, 142814, 148256, 153986, 160033, 166427, 173205,
       180404, 188072, 196261, 205030, 214450, 224603, 235585, 247508, 260508, 274747,
       290421, 307768, 327085, 348741, 373205, 401078, 433147, 470463, 514455, 567128,
       631375, 711536, 814434, 951436, 1143005, 1430066, 1908113, 2863625, 5728996 >>

\* Sign of a / b - tan(n degrees), for b > 0 and 0 < n < 90.
CmpTan(a, b, n) ==
    IF n = 45 THEN Sign(a - b)
    ELSE IF a * 100000 <= TanTable[n] * b THEN -1 ELSE 1

\* Sign of arctan(dx / dy) - n in degrees (the angle is 0 for dx = 0 and
\* 90, -90 by the sign of dx for dy = 0).
CmpBase(dx, dy, n) ==
    IF dx = 0 THEN Sign(0 - n)
    ELSE IF dy = 0 THEN Sign(90 * Sign(dx) - n)
    ELSE IF n >= 90 THEN -1
    ELSE IF n <= -90 THEN 1
    ELSE LET a == dx * Sign(dy)
             b == Abs(dy)
         IN  IF n = 0 THEN Sign(a)
             ELSE IF n > 0 THEN CmpTan(a, b, n)
             ELSE -CmpTan(-a, b, -n)

\* all_angles < n - eps * 1e-8
AngleLess(dx, dy, n, eps) ==
    LET c == CmpBase(dx, dy, n)
    IN  c < 0 \/ (c = 0 /\ dx > 0)

\* all_angles > n - eps * 1e-8
AngleGreater(dx, dy, n, eps) ==
    LET c == CmpBase(dx, dy, n)
    IN  c > 0 \/ (c = 0 /\ (dx < 0 \/ (dx = 0 /\ eps > 0)))

\* (all_angles < 45 - angle) & (all_angles > -45 - angle)
InBand(dx, dy, angle) ==
    /\ AngleLess(dx, dy, 45 - angle[1], angle[2])
    /\ AngleGreater(dx, dy, -45 - angle[1], angle[2])

\* np.sign(angle)
AngleSign(angle) ==
    IF angle[1] > 0 \/ (angle[1] = 0 /\ angle[2] > 0) THEN 1
    ELSE IF angle[1] < 0 THEN -1
    ELSE 0

\* angle % (angle_sign * 360): the result has the sign of the divisor.
ModSigned(angle, sign) ==
    IF sign > 0 THEN << angle[1] % 360, angle[2] >>
    ELSE IF angle[2] = 0 THEN << -((-angle[1]) % 360), 0 >>
    ELSE << -((-angle[1] - 1) % 360) - 1, angle[2] >>

\* abs(angle) > 44
AbsAbove44(angle) ==
    IF angle[1] >= 0 THEN angle[1] > 44 \/ (angle[1] = 44 /\ angle[2] > 0)
    ELSE -angle[1] >= 45

\* (abs(angle) - 1) // 44
Rem(angle) ==
    IF angle[1] >= 0 THEN (angle[1] - 1) \div 44
    ELSE (-angle[1] - 1 - angle[2]) \div 44

Adjacent(p, q) == Abs(p[1] - q[1]) <= 1 /\ Abs(p[2] - q[2]) <= 1

RasterFirst(mask) ==
    LET r == CHOOSE v \in { p[1] : p \in mask } : \A p \in mask : v <= p[1]
        cs == { p[2] : p \in { q \in mask : q[1] = r } }
    IN  << r, CHOOSE v \in cs : \A u \in cs : v <= u >>

RECURSIVE Grow(_, _, _)
Grow(mask, comp, frontier) ==
    IF frontier = { } THEN comp
    ELSE LET new == { q \in mask \ comp : \E p \in frontier : Adjacent(p, q) }
         IN  Grow(mask, comp \cup new, new)

\* meas.regionprops(meas.label(mask)): the 8-connected components, in the
\* raster order of their first pixels.
RECURSIVE Label(_)
Label(mask) ==
    IF mask = { } THEN << >>
    ELSE LET p == RasterFirst(mask)
             comp == Grow(mask, { p }, { p })
         IN  << comp >> \o Label(mask \ comp)

\* [masks[i] for i in order], order holding 0-based indices.
Reorder(masks, order) == [ i \in 1 .. Len(order) |-> masks[order[i] + 1] ]

ComponentOrEmpty(props, i, n) == IF i <= n THEN props[i] ELSE { }

\* Lines 129-136: the angle the band test uses, the relabelling count and
\* the sign of the angle given.
NormalizeAngle(angle) ==
    LET angle_sign == AngleSign(angle)
        wrapped == IF angle_sign = 0 THEN angle ELSE ModSigned(angle, angle_sign)
    IN  IF AbsAbove44(wrapped)
        THEN [ angle |-> << wrapped[1] - angle_sign * 89, wrapped[2] >>,
               relabel |-> Rem(wrapped),
               angle_sign |-> angle_sign ]
        ELSE [ angle |-> wrapped, relabel |-> 0, angle_sign |-> angle_sign ]

\* Lines 140-141: the pixels of the mask in the top / bottom band.
TopBottomBand(circle_mask, c, angle) ==
    { p \in circle_mask : InBand(c[2] - p[2], c[1] - p[1], angle) }

\* a slip that relabels for the count 1 only
OrderQuadrantsRelabelOnce(topbot_props, leftright_props, c, norm) ==
    LET n == Min(Len(topbot_props), Len(leftright_props))
        etdrs_masks == << ComponentOrEmpty(topbot_props, 1, n) \cup { c },
                          ComponentOrEmpty(topbot_props, 2, n),
                          ComponentOrEmpty(leftright_props, 1, n),
                          ComponentOrEmpty(leftright_props, 2, n) >>
        ordered == Reorder(etdrs_masks,
                           IF norm.angle[1] >= 0 THEN << 0, 2, 1, 3 >> ELSE << 0, 3, 1, 2 >>)
    IN  IF n > 2
        THEN [ raised |-> "IndexError", masks |-> << >> ]
        ELSE [ raised |-> "no",
               masks |-> Reorder(ordered,
                            IF norm.relabel = 1 /\ norm.angle_sign > 0
                            THEN << 3, 2, 1, 0 >>
                            ELSE IF norm.relabel = 1 /\ norm.angle_sign < 0
                            THEN << 1, 2, 3, 0 >>
                            ELSE << 0, 1, 2, 3 >>) ]

\* Lines 152-182: the components as quadrants, ordered and relabelled.
OrderQuadrants(topbot_props, leftright_props, c, norm) ==
    LET n == Min(Len(topbot_props), Len(leftright_props))
        etdrs_masks == << ComponentOrEmpty(topbot_props, 1, n) \cup { c },
                          ComponentOrEmpty(topbot_props, 2, n),
                          ComponentOrEmpty(leftright_props, 1, n),
                          ComponentOrEmpty(leftright_props, 2, n) >>
        ordered == Reorder(etdrs_masks,
                           IF norm.angle[1] >= 0 THEN << 0, 2, 1, 3 >> ELSE << 0, 3, 1, 2 >>)
    IN  IF n > 2
        THEN [ raised |-> "IndexError", masks |-> << >> ]
        ELSE [ raised |-> "no",
               masks |-> Reorder(ordered,
                            IF norm.relabel \in { 1, 2 } /\ norm.angle_sign > 0
                            THEN << 3, 2, 1, 0 >>
                            ELSE IF norm.relabel \in { 1, 2 } /\ norm.angle_sign < 0
                            THEN << 1, 2, 3, 0 >>
                            ELSE << 0, 1, 2, 3 >>) ]

create_circular_grids(circle_mask, angle) ==
    With(<< IntCentroid(circle_mask), NormalizeAngle(angle) >>,
         LAMBDA cn :
            With(TopBottomBand(circle_mask, cn[1], cn[2].angle),
                 LAMBDA band :
                    With(<< Label(band \ { cn[1] }), Label(circle_mask \ band) >>,
                         LAMBDA props : OrderQuadrants(props[1], props[2], cn[1], cn[2]))))

\* int(np.ceil((N / scale) / 2)), for positive integers N and scale.
EtdrsRadius(N, scale) == (N + 2 * scale - 1) \div (2 * scale)

\* Lines 339-345, from the circles and the quadrants of circles[1:].
EtdrsRegions(circles, quadrants) ==
    LET central == circles[1]
        inner_regions == << quadrants[1].masks[1] \ central,
                            quadrants[1].masks[2] \ central,
                            quadrants[1].masks[3] \ central,
                            quadrants[1].masks[4] \ central >>
        outer_regions ==
            << quadrants[2].masks[1] \ ((quadrants[1].masks[1] \ central) \cup central),
               quadrants[2].masks[2] \ ((quadrants[1].masks[2] \ central) \cup central),
               quadrants[2].masks[3] \ ((quadrants[1].masks[3] \ central) \cup central),
               quadrants[2].masks[4] \ ((quadrants[1].masks[4] \ central) \cup central) >>
    IN  IF \E i \in DOMAIN quadrants : quadrants[i].raised # "no"
        THEN [ raised |-> "IndexError" ]
        ELSE [ raised |-> "no",
               circles |-> circles,
               quadrants |-> << quadrants[1].masks, quadrants[2].masks >>,
               central |-> central,
               inner_circle |-> UNION { inner_regions[i] : i \in 1 .. 4 },
               outer_circle |-> UNION { outer_regions[i] : i \in 1 .. 4 },
               inner_regions |-> inner_regions,
               outer_regions |-> outer_regions ]

\* etdrs_microns holds the three diameters of the grid.
create_etdrs_grid(scale, center, img_shape, angle, etdrs_microns) ==
    With(<< create_circular_mask(img_shape, center, << EtdrsRadius(etdrs_microns[1], scale) >>),
            create_circular_mask(img_shape, center, << EtdrsRadius(etdrs_microns[2], scale) >>),
            create_circular_mask(img_shape, center, << EtdrsRadius(etdrs_microns[3], scale) >>) >>,
         LAMBDA circles :
            With(<< create_circular_grids(circles[2], angle),
                    create_circular_grids(circles[3], angle) >>,
                 LAMBDA quadrants : EtdrsRegions(circles, quadrants)))

EtdrsLocs(eye) ==
    IF eye = "Right" THEN << "superior", "temporal", "inferior", "nasal" >>
    ELSE << "superior", "nasal", "inferior", "temporal" >>

\* measure_grid with measure_type = "etdrs", up to all_mask.
\* Lines 594-604, from the output of create_etdrs_grid.
EtdrsSubfields(output, eye) ==
    LET grid_masks == << output.central >> \o output.inner_regions \o output.outer_regions
        etdrs_locs == EtdrsLocs(eye)
    IN  IF output.raised # "no"
        THEN [ raised |-> output.raised ]
        ELSE [ raised |-> "no",
               grid_masks |-> grid_masks,
               grid_subgrids |-> << << "central" >> >>
                    \o [ i \in 1 .. 4 |-> << "inner", etdrs_locs[i] >> ]
                    \o [ i \in 1 .. 4 |-> << "outer", etdrs_locs[i] >> ],
               all_mask |-> UNION { grid_masks[i] : i \in DOMAIN grid_masks } ]

measure_grid_etdrs(img_shape, fovea, scale, eye, rotate, etdrs_microns) ==
    With(create_etdrs_grid(scale,
                           IF Len(fovea) = 1 THEN << fovea[1], fovea[1] >> ELSE fovea,
                           img_shape, rotate, etdrs_microns),
         LAMBDA output : EtdrsSubfields(output, eye))

\* bscan_utils.construct_line: the line y = m * x + c through p1 and p2,
\* two (x, y) points with fraction coordinates; no slope for equal x.
ConstructLine(p1, p2) ==
    LET dx == FracSub(p2[1], p1[1])
        dy == FracSub(p2[2], p1[2])
        m == FracDiv(dy, dx)
    IN  IF dx[1] = 0
        THEN [ vertical |-> TRUE ]
        ELSE [ vertical |-> FALSE, m |-> m, c |-> FracSub(p2[2], FracMul(m, p2[1])) ]

\* y <= m * x + c
OnOrBelowLine(p, line) ==
    p[1] * line.m[2] * line.c[2]
        <= line.m[1] * p[2] * line.c[2] + line.c[1] * line.m[2]

\* Lines 241-262: the halves of a superior / inferior quadrant.
SplitQuadrant(quad, centre) ==
    IF quad = { } THEN [ raised |-> "IndexError" ]
    ELSE LET cen == Centroid(quad)
             line == ConstructLine(<< cen[2], cen[1] >>,
                                   << Frac(centre[1], 1), Frac(centre[2], 1) >>)
             reg_coords == Label(quad)[1]
             right == { p \in reg_coords : OnOrBelowLine(p, line) }
             left == reg_coords \ right
         IN  IF line.vertical THEN [ raised |-> "VerticalLine" ]
             ELSE IF left = { } \/ right = { } THEN [ raised |-> "IndexError" ]
             ELSE [ raised |-> "no", left |-> left, right |-> right ]

LeftOrderUnmirrored == << 2, 1, 0, 5, 3, 4, 6 >>

RightOrder == << 2, 1, 0, 5, 3, 4, 6 >>

LeftOrder == << 5, 0, 1, 2, 4, 3, 6 >>

\* Lines 232-277, from the quadrants and the halves of quadrants 0 and 2.
PeripapillaryMasks(circ_4grids, sup, inf, centre_mask, eye) ==
    LET grid_masks == << sup.left \ centre_mask,
                         sup.right \ centre_mask,
                         circ_4grids.masks[2] \ centre_mask,
                         inf.left \ centre_mask,
                         inf.right \ centre_mask,
                         circ_4grids.masks[4] \ centre_mask,
                         centre_mask >>
    IN  IF circ_4grids.raised # "no" THEN [ raised |-> circ_4grids.raised ]
        ELSE IF sup.raised # "no" THEN [ raised |-> sup.raised ]
        ELSE IF inf.raised # "no" THEN [ raised |-> inf.raised ]
        ELSE [ raised |-> "no",
               masks |-> IF eye = "Right" THEN Reorder(grid_masks, RightOrder)
                         ELSE IF eye = "Left" THEN Reorder(grid_masks, LeftOrder)
                         ELSE grid_masks ]

create_peripapillary_grid(radius, centre, img_shape, angle, eye) ==
    With(<< create_circular_mask(img_shape, centre, << radius >>),
            create_circular_mask(img_shape, centre, << radius \div 3 >>) >>,
         LAMBDA circle :
            With(create_circular_grids(circle[1], << angle[1], angle[2] + 1 >>),
                 LAMBDA circ_4grids :
                    With(IF circ_4grids.raised = "no"
                         THEN << SplitQuadrant(circ_4grids.masks[1], centre),
                                 SplitQuadrant(circ_4grids.masks[3], centre) >>
                         ELSE << >>,
                         LAMBDA halves :
                            PeripapillaryMasks(circ_4grids, halves[1], halves[2],
                                               circle[2], eye))))

-----------------------------------------------------------------------------
(* measure_grid, grid.py 502-675: the aggregation, lines 606-675, and
   interp_missing, lines 460-498.

   A measurement is an integer and -1 marks a pixel without data; the float
   NaN is the value NaN below.  A statistic or a volume is a record
   [kind, val]: kind "num" with the number in val (for dtype float64 and for
   volumes in thousandths, the three decimals np.round keeps), kind "nan",
   and kinds "2^63" and "2^64-" for the unsigned integers 2^63 and
   2^64 - val that a cast of NaN or of a negative float to uint64 leaves on
   some processors.  A dict is the sequence of its [sub, val] items in
   insertion order.  Arrays live in a heap, a sequence of arrays: a name of
   the code that is bound to an array holds the index of the array, index 1
   being the caller's thick_map.

   What the libraries leave open is the record env: tie, the neighbour a
   nearest-neighbour query returns among equidistant ones ("first" or "last"
   in the order of np.where); scipy, what NearestNDInterpolator does without
   a single known point ("raises": indexing its empty values fails, "nan":
   it returns NaN); platform, what the cast of NaN or of a float <= -1 to
   uint64 yields ("x86_64": 2^63, 2^64 - n; "aarch64": 0). *)

NaN == -1000000

Envs == [ tie : { "first", "last" }, scipy : { "raises", "nan" },
          platform : { "x86_64", "aarch64" } ]

Num(v) == [ kind |-> "num", val |-> v ]

NotANumber == [ kind |-> "nan", val |-> 0 ]

\* thick_map.shape
ShapeOf(arr) ==
    << Cardinality({ p[1] : p \in DOMAIN arr }), Cardinality({ p[2] : p \in DOMAIN arr }) >>

\* p comes no later than q in np.where(...), row by row
RasterBefore(p, q) == p[1] < q[1] \/ (p[1] = q[1] /\ p[2] <= q[2])

Dist2(p, q) == (p[1] - q[1]) * (p[1] - q[1]) + (p[2] - q[2]) * (p[2] - q[2])

\* NearestNDInterpolator(ct_coords, ct_data)(p): the known point nearest to p
Nearest(p, known, tie) ==
    CHOOSE q \in known :
        \A r \in known :
            \/ Dist2(p, q) < Dist2(p, r)
            \/ /\ Dist2(p, q) = Dist2(p, r)
               /\ IF tie = "first" THEN RasterBefore(q, r) ELSE RasterBefore(r, q)

\* lines 483-498.  ctmask holds 0 outside the subfield and NaN at the
\* pixels to fill.
interp_missing(ctmask, env) ==
    LET ctmap_ctmask == { p \in DOMAIN ctmask : ctmask[p] # NaN /\ ctmask[p] > 0 }
        ctmap_ctnone == { p \in DOMAIN ctmask : ctmask[p] # 0 }
    IN  IF ctmap_ctmask = { } /\ ctmap_ctnone # { } /\ env.scipy = "raises"
        THEN [ raised |-> "IndexError", new_ctmask |-> << >> ]
        ELSE [ raised |-> "no",
               new_ctmask |->
                  [ p \in DOMAIN ctmask |->
                      IF p \notin ctmap_ctnone THEN 0
                      ELSE IF ctmap_ctmask = { } THEN NaN
                      ELSE ctmask[Nearest(p, ctmap_ctmask, env.tie)] ] ]

\* "vessel" in fname, fname being the sequence of the words of the name
ContainsVessel(fname) == \E i \in DOMAIN fname : fname[i] = "vessel"

\* lines 568-571 in units of 1e-9; fname = None is the empty sequence
delta_xy(scale, fname) ==
    IF fname # << >> /\ ~ContainsVessel(fname) THEN scale * scale ELSE scale

\* lines 607-610
round_idx(dtype) == IF dtype = "uint64" THEN 0 ELSE 3

RECURSIVE SumOver(_, _)
\* arr[S].sum()
SumOver(arr, S) ==
    IF S = { } THEN 0
    ELSE LET p == CHOOSE q \in S : TRUE
         IN  arr[p] + SumOver(arr, S \ { p })

HasNaN(arr, S) == \E p \in S : arr[p] = NaN

\* np.uint64(x) for the float x = sum / n, n > 0
CastUint64(sum, n, platform) ==
    IF sum >= 0 THEN Num(sum \div n)
    ELSE IF -sum < n THEN Num(0)
    ELSE IF platform = "x86_64" THEN [ kind |-> "2^64-", val |-> (-sum) \div n ]
    ELSE Num(0)

\* np.uint64(nan) and np.float64(nan)
CastNaN(dtype, platform) ==
    IF dtype = "float64" THEN NotANumber
    ELSE IF platform = "x86_64" THEN [ kind |-> "2^63", val |-> 0 ]
    ELSE Num(0)

\* np.round(dtype(arr[S].mean()), round_idx), lines 641, 650, 654, 657
Statistic(arr, S, dtype, platform) ==
    IF S = { } \/ HasNaN(arr, S) THEN CastNaN(dtype, platform)
    ELSE IF dtype = "uint64" THEN CastUint64(SumOver(arr, S), Cardinality(S), platform)
    ELSE Num(NpRound(SumOver(arr, S) * 1000, Cardinality(S)))

\* np.round((delta_xy * arr[S]).sum(), 3), lines 640, 649, 659, 660
Volume(arr, S, delta) ==
    IF HasNaN(arr, S) THEN NotANumber
    ELSE Num(NpRound(delta * SumOver(arr, S), 1000000))

\* d[k] = v
DictSet(d, k, v) ==
    IF \E i \in DOMAIN d : d[i].sub = k
    THEN [ i \in DOMAIN d |-> IF d[i].sub = k THEN [ sub |-> k, val |-> v ] ELSE d[i] ]
    ELSE Append(d, [ sub |-> k, val |-> v ])

Keys(d) == { d[i].sub : i \in DOMAIN d }

\* d[k], for a key of d
Get(d, k) == d[CHOOSE i \in DOMAIN d : d[i].sub = k].val

\* line 628; prop_missing in hundredths of a percent, np.round(..., 2)
MissingMessage(prop_missing, sub, measure_type) ==
    [ text |-> "% missing values in region in grid. Interpolating using nearest neighbour.",
      prop_missing |-> prop_missing, sub |-> sub, measure_type |-> measure_type ]

\* a slip that leaves out the copy: mapmask is thick_map itself
NpCopyAliased(heap, ref) == [ heap |-> heap, ref |-> ref ]

\* thick_map.copy(), line 622: a new array with the same contents
NpCopy(heap, ref) == [ heap |-> Append(heap, heap[ref]), ref |-> Len(heap) + 1 ]

\* arr[where] = v, in place
Assign(heap, ref, where, v) ==
    [ heap EXCEPT ![ref] = [ p \in DOMAIN heap[ref] |-> IF p \in where THEN v ELSE heap[ref][p] ] ]

\* lines 626-633 on the copy h = [heap, ref]: the message, the two
\* assignments in place and mapmask rebound to the array interp_missing returns
FillMissing(h, bool_mask, sub, measure_type, env) ==
    LET arr == h.heap[h.ref]
        missing == { p \in bool_mask : arr[p] = -1 }
        zeroed == Assign(h.heap, h.ref, DOMAIN arr \ bool_mask, 0)
        nanned == Assign(zeroed, h.ref, { p \in DOMAIN arr : zeroed[h.ref][p] = -1 }, NaN)
    IN  IF missing = { }
        THEN [ raised |-> "no", heap |-> h.heap, ref |-> h.ref, msgs |-> << >> ]
        ELSE With(<< nanned, interp_missing(nanned[h.ref], env) >>,
                  LAMBDA r :
                     [ raised |-> r[2].raised,
                       heap |-> IF r[2].raised = "no" THEN Append(r[1], r[2].new_ctmask)
                                ELSE r[1],
                       ref |-> Len(r[1]) + 1,
                       msgs |-> << MissingMessage(
                                     NpRound(10000 * Cardinality(missing),
                                             Cardinality(bool_mask)),
                                     sub, measure_type) >> ])

\* lines 636-641 on mapmask = heap[f.ref]
MeasureSubfield(st, f, bool_mask, sub, dtype, delta, env) ==
    IF f.raised # "no"
    THEN [ st EXCEPT !.raised = f.raised, !.heap = f.heap,
                     !.logging_list = st.logging_list \o f.msgs ]
    ELSE With(Assign(f.heap, f.ref, DOMAIN f.heap[f.ref] \ bool_mask, -1),
              LAMBDA heap :
                 [ raised |-> "no",
                   heap |-> heap,
                   all_subr_vals |-> Append(st.all_subr_vals, f.ref),
                   logging_list |-> st.logging_list \o f.msgs,
                   gridvol_dict |->
                      IF dtype = "uint64"
                      THEN DictSet(st.gridvol_dict, sub, Volume(heap[f.ref], bool_mask, delta))
                      ELSE st.gridvol_dict,
                   grid_dict |->
                      DictSet(st.grid_dict, sub,
                              Statistic(heap[f.ref], bool_mask, dtype, env.platform)) ])

RECURSIVE InterpLoop(_, _, _, _, _, _, _, _)
\* lines 620-641: the loop over zip(grid_subgrids, grid_masks) from item k on
InterpLoop(st, k, grid_subgrids, grid_masks, measure_type, dtype, delta, env) ==
    IF k > Min(Len(grid_subgrids), Len(grid_masks)) \/ st.raised # "no" THEN st
    ELSE InterpLoop(
            MeasureSubfield(st,
                            FillMissing(NpCopy(st.heap, 1), grid_masks[k], grid_subgrids[k],
                                        measure_type, env),
                            grid_masks[k], grid_subgrids[k], dtype, delta, env),
            k + 1, grid_subgrids, grid_masks, measure_type, dtype, delta, env)

RECURSIVE ZeroSentinels(_, _, _)
\* lines 644-645: mapmask[mapmask == -1] = 0 for the arrays of all_subr_vals
ZeroSentinels(heap, all_subr_vals, k) ==
    IF k > Len(all_subr_vals) THEN heap
    ELSE ZeroSentinels(
            Assign(heap, all_subr_vals[k],
                   { p \in DOMAIN heap[all_subr_vals[k]] : heap[all_subr_vals[k]][p] = -1 }, 0),
            all_subr_vals, k + 1)

\* lines 646-650 and 655-660: the entries "all" from thick_map = heap[1]
AllEntries(st, all_mask, dtype, delta, env) ==
    IF st.raised # "no" THEN st
    ELSE IF all_mask = { }
    THEN [ st EXCEPT !.raised = "ValueError" ]      \* all_subr_mask.max() of nothing
    ELSE [ st EXCEPT
             !.gridvol_dict =
                 IF dtype = "uint64"
                 THEN DictSet(st.gridvol_dict, << "all" >>, Volume(st.heap[1], all_mask, delta))
                 ELSE st.gridvol_dict,
             !.grid_dict =
                 DictSet(st.grid_dict, << "all" >>,
                         Statistic(st.heap[1], all_mask, dtype, env.platform)) ]

\* lines 615-650
AggregateInterp(heap, logging_list, grid_subgrids, grid_masks, all_mask, measure_type, dtype, delta, env) ==
    With(InterpLoop([ raised |-> "no", heap |-> heap, all_subr_vals |-> << >>,
                      logging_list |-> logging_list, gridvol_dict |-> << >>,
                      grid_dict |-> << >> ],
                    1, grid_subgrids, grid_masks, measure_type, dtype, delta, env),
         LAMBDA st :
            AllEntries([ st EXCEPT !.heap = ZeroSentinels(st.heap, st.all_subr_vals, 1) ],
                       all_mask, dtype, delta, env))

RECURSIVE RawLoop(_, _, _, _, _, _, _)
\* lines 654 and 659: the two dict comprehensions over zip(grid_subgrids, grid_masks)
RawLoop(st, k, grid_subgrids, grid_masks, dtype, delta, env) ==
    IF k > Min(Len(grid_subgrids), Len(grid_masks)) THEN st
    ELSE RawLoop(
            [ st EXCEPT
                !.gridvol_dict =
                    IF dtype = "uint64"
                    THEN DictSet(st.gridvol_dict, grid_subgrids[k],
                                 Volume(st.heap[1], grid_masks[k], delta))
                    ELSE st.gridvol_dict,
                !.grid_dict =
                    DictSet(st.grid_dict, grid_subgrids[k],
                            Statistic(st.heap[1], grid_masks[k], dtype, env.platform)) ],
            k + 1, grid_subgrids, grid_masks, dtype, delta, env)

\* lines 653-660
AggregateRaw(heap, logging_list, grid_subgrids, grid_masks, all_mask, dtype, delta, env) ==
    AllEntries(RawLoop([ raised |-> "no", heap |-> heap, all_subr_vals |-> << >>,
                         logging_list |-> logging_list, gridvol_dict |-> << >>,
                         grid_dict |-> << >> ],
                       1, grid_subgrids, grid_masks, dtype, delta, env),
               all_mask, dtype, delta, env)

\* lines 574-604: the subfield masks (as sets of pixels), their names and
\* all_mask; logging is the default list of create_square_grid after the call
measure_grid_subfields(img_shape, fovea, scale, eye, rotate, measure_type, grid_kwds, log_in) ==
    IF measure_type = "square"
    THEN With(measure_grid_square(img_shape, fovea, scale, eye, grid_kwds.N_grid,
                                  grid_kwds.grid_size, log_in),
              LAMBDA g :
                 IF g.raised # "no" THEN [ raised |-> g.raised, logging |-> g.logging ]
                 ELSE [ raised |-> "no", logging |-> g.logging,
                        grid_masks |-> g.grid_masks,
                        bool_masks |-> [ k \in DOMAIN g.grid_masks |-> Support(g.grid_masks[k]) ],
                        grid_subgrids |-> g.grid_subgrids,
                        all_mask |-> g.all_mask,
                        logging_list |-> g.logging_list ])
    ELSE With(measure_grid_etdrs(img_shape, fovea, scale, eye, rotate, grid_kwds.etdrs_microns),
              LAMBDA g :
                 IF g.raised # "no" THEN [ raised |-> g.raised, logging |-> log_in ]
                 ELSE [ raised |-> "no", logging |-> log_in,
                        grid_masks |-> g.grid_masks,
                        bool_masks |-> g.grid_masks,
                        grid_subgrids |-> g.grid_subgrids,
                        all_mask |-> g.all_mask,
                        logging_list |-> << >> ])

\* lines 606-675 for plot = False, from the subfields g: what the call
\* returns or raises, and thick_map, the caller's array after the call
measure_grid_aggregate(g, map, scale, interp, measure_type, dtype, fname, env) ==
    IF g.raised # "no"
    THEN [ raised |-> g.raised, logging |-> g.logging, thick_map |-> map ]
    ELSE With(IF interp
              THEN AggregateInterp(<< map >>, g.logging_list, g.grid_subgrids, g.bool_masks,
                                   g.all_mask, measure_type, dtype, delta_xy(scale, fname), env)
              ELSE AggregateRaw(<< map >>, g.logging_list, g.grid_subgrids, g.bool_masks,
                                g.all_mask, dtype, delta_xy(scale, fname), env),
              LAMBDA st :
                 IF st.raised # "no"
                 THEN [ raised |-> st.raised, logging |-> g.logging, thick_map |-> st.heap[1] ]
                 ELSE IF ~interp /\ dtype # "uint64"
                 THEN \* line 675: gridvol_dict was never bound
                      [ raised |-> "UnboundLocalError", logging |-> g.logging,
                        thick_map |-> st.heap[1] ]
                 ELSE [ raised |-> "no", logging |-> g.logging, thick_map |-> st.heap[1],
                        grid_masks |-> g.grid_masks,
                        grid_subgrids |-> g.grid_subgrids,
                        all_mask |-> g.all_mask,
                        grid_dict |-> st.grid_dict,
                        gridvol_dict |-> st.gridvol_dict,
                        logging_list |-> st.logging_list ])

\* lines 606-675 with the arguments plot and slo; slo = None is the empty
\* sequence.  With plot on and no SLO image the call returns at line 670
\* with grid_dict alone; with an image plot_grid draws and line 675 returns.
measure_grid_plot(g, map, scale, interp, measure_type, dtype, fname, plot, slo, env) ==
    IF ~plot \/ slo # << >> \/ g.raised # "no"
    THEN measure_grid_aggregate(g, map, scale, interp, measure_type, dtype, fname, env)
    ELSE With(IF interp
              THEN AggregateInterp(<< map >>, g.logging_list, g.grid_subgrids, g.bool_masks,
                                   g.all_mask, measure_type, dtype, delta_xy(scale, fname), env)
              ELSE AggregateRaw(<< map >>, g.logging_list, g.grid_subgrids, g.bool_masks,
                                g.all_mask, dtype, delta_xy(scale, fname), env),
              LAMBDA st :
                 IF st.raised # "no"
                 THEN [ raised |-> st.raised, logging |-> g.logging, thick_map |-> st.heap[1] ]
                 ELSE [ raised |-> "no", logging |-> g.logging, thick_map |-> st.heap[1],
                        grid_masks |-> g.grid_masks,
                        grid_subgrids |-> g.grid_subgrids,
                        all_mask |-> g.all_mask,
                        grid_dict |-> st.grid_dict ])

\* measure_grid(thick_map, fovea, scale, eye, interp, rotate, measure_type,
\*              grid_kwds, dtype=dtype, fname=fname) in the environment env,
\* the default list of create_square_grid holding log_in
measure_grid(map, fovea, scale, eye, interp, rotate, measure_type, grid_kwds, dtype, fname, log_in, env) ==
    With(measure_grid_subfields(ShapeOf(map), fovea, scale, eye, rotate, measure_type,
                                grid_kwds, log_in),
         LAMBDA g : measure_grid_aggregate(g, map, scale, interp, measure_type, dtype,
                                           fname, env))

-----------------------------------------------------------------------------
(* Inputs of the square-grid calls *)

Shapes == { << MaxDim, MaxDim >>, << MaxDim - 1, MaxDim >>, << MaxDim, MaxDim - 1 >> }

Centers ==
    { << >>,
      << MaxDim \div 2, MaxDim \div 2 >>,
      << MaxDim \div 2 - 1, MaxDim \div 2 >>,
      << MaxDim \div 2 + 1, MaxDim \div 2 >> }

Foveas == { << MaxDim \div 2 >>, << MaxDim \div 2 - 1, MaxDim \div 2 >> }

Scales == { 1, 2 }

NGrids == { 2, 3 }

GridSizes == 1 .. MaxGridSize

Eyes == { "Right", "Left" }

\* arguments (scalex, center, img_shape, N_grid, grid_size) that explore the geometry
SquareInputs ==
    [ img_shape : Shapes, center : Centers \cup Foveas, scalex : Scales,
      N_grid : NGrids, grid_size : GridSizes ]

\* the few arguments that explore the history of the shared default list: on
\* a MaxDim x MaxDim image around its centre, grids that fit and grids that do not
HistoryInputs ==
    [ img_shape : { << MaxDim, MaxDim >> },
      center : { << >>, << MaxDim \div 2 >> },
      scalex : { 1 }, N_grid : NGrids,
      grid_size : { MaxDim - 2, MaxDim, MaxDim + 2 } ]

\* create_square_grid(scalex, center, img_shape, 0, N_grid, grid_size), without a
\* `logging` argument or with logging=[] made by the caller, and
\* measure_grid(thick_map, fovea, scale, eye, measure_type="square",
\*              grid_kwds={"N_grid": N_grid, "grid_size": grid_size}),
\* args.center being the fovea and args.scalex the scale, with the default
\* interp, dtype and fname
SquareCalls(inputs) ==
    { [ fn |-> "create_square_grid", explicit_log |-> e, args |-> a ] :
        a \in { x \in inputs : Len(x.center) # 1 }, e \in BOOLEAN }
    \cup
    { [ fn |-> "measure_grid", measure_type |-> "square", eye |-> eye, args |-> a,
        interp |-> TRUE, dtype |-> "uint64", fname |-> << >>, plot |-> FALSE, slo |-> << >> ] :
        a \in { x \in inputs : Len(x.center) # 0 }, eye \in Eyes }

-----------------------------------------------------------------------------
(* State machine: a call is issued with its arguments, then runs *)

Pending == [ raised |-> "pending" ]

\* no measurement map is passed: the call does not read thick_map
NoArray == << >>

\* analyse is not running
NoFrame == [ pc |-> "none" ]

Returned == ret # Pending /\ ret.raised = "no"

CreateSquareGrid ==
    /\ call.fn = "create_square_grid"
    /\ ret = Pending
    /\ LET a == call.args
           r == create_square_grid(a.scalex, a.center, a.img_shape, a.N_grid, a.grid_size,
                                   IF call.explicit_log THEN << >> ELSE default_logging)
       IN  /\ ret' = [ raised |-> r.raised, fallback |-> r.fallback, tuple |-> r.tuple ]
           /\ default_logging' = IF call.explicit_log THEN default_logging ELSE r.logging
    /\ UNCHANGED << call, thick_map, frame >>

\* the flat map of the scenarios: 300 at every pixel
FlatMap(img_shape) == [ p \in Pixels(img_shape[1], img_shape[2]) |-> 300 ]

\* the array a call of measure_grid is given when the call only explores the grid
DefaultMap(c) == IF c.fn = "measure_grid" THEN FlatMap(c.args.img_shape) ELSE NoArray

\* the call of measure_grid in `call` on the array thick_map, in every environment
SquareOutcomes ==
    With(measure_grid_subfields(ShapeOf(thick_map), call.args.center, call.args.scalex,
                                call.eye, 0, "square",
                                [ N_grid |-> call.args.N_grid,
                                  grid_size |-> call.args.grid_size ],
                                default_logging),
         LAMBDA g :
            { measure_grid_plot(g, thick_map, call.args.scalex, call.interp, "square",
                                call.dtype, call.fname, call.plot, call.slo, env) :
                env \in Envs })

MeasureGridSquare ==
    /\ call.fn = "measure_grid"
    /\ call.measure_type = "square"
    /\ ret = Pending
    /\ \E r \in SquareOutcomes :
          /\ ret' = [ x \in DOMAIN r \ { "logging", "thick_map" } |-> r[x] ]
          /\ default_logging' = r.logging
          /\ thick_map' = r.thick_map
    /\ UNCHANGED << call, frame >>

\* Geometry of the square grid: one call in a fresh interpreter
Init ==
    /\ default_logging = << >>
    /\ call \in SquareCalls(SquareInputs)
    /\ ret = Pending
    /\ thick_map = DefaultMap(call)
    /\ frame = NoFrame

Next == CreateSquareGrid \/ MeasureGridSquare

Spec == Init /\ [][Next]_vars

\* History of the shared default list: call after call in one interpreter
InitLog ==
    /\ default_logging = << >>
    /\ call \in SquareCalls(HistoryInputs)
    /\ ret = Pending
    /\ thick_map = DefaultMap(call)
    /\ frame = NoFrame

NewCall ==
    /\ ret # Pending
    /\ Len(default_logging) < MaxLogLen
    /\ call' \in SquareCalls(HistoryInputs)
    /\ ret' = Pending
    /\ thick_map' = DefaultMap(call')
    /\ UNCHANGED << default_logging, frame >>

NextLog == CreateSquareGrid \/ MeasureGridSquare \/ NewCall

SpecLog == InitLog /\ [][NextLog]_vars


-----------------------------------------------------------------------------
(* Properties of the square-grid calls *)

SquareCallRan(fn) == call.fn = fn /\ ret # Pending

\* the centre the grid lines of the rows (center[1]) and of the columns
\* (center[0]) are laid around
RowCentre(a) ==
    LET c == ForceCenter(IF Len(a.center) = 1 THEN << a.center[1], a.center[1] >> ELSE a.center,
                         a.img_shape)
    IN  c[2]

ColCentre(a) ==
    LET c == ForceCenter(IF Len(a.center) = 1 THEN << a.center[1], a.center[1] >> ELSE a.center,
                         a.img_shape)
    IN  c[1]

\* grid line i (0 .. N_grid) around c is below / above the number v
LineBelow(a, c, i, v) ==
    LineNum(c, a.scalex, a.N_grid, a.grid_size, i) < v * LineDen(a.scalex, a.N_grid)

LineAbove(a, c, i, v) ==
    LineNum(c, a.scalex, a.N_grid, a.grid_size, i) > v * LineDen(a.scalex, a.N_grid)

\* the bounds check of create_square_grid passes for arguments a
GridFits(a) ==
    Condition(BoxIdx(RowCentre(a), a.scalex, a.N_grid, a.grid_size),
              BoxIdx(ColCentre(a), a.scalex, a.N_grid, a.grid_size),
              a.img_shape[1], a.img_shape[2])

\* the messages a call generates itself
OwnMessages ==
    IF call.fn = "create_square_grid" /\ ret.fallback
    THEN FallbackMessages(call.args.N_grid, call.args.grid_size)
    ELSE << >>

\* the log a call returns
ReturnedLog ==
    IF call.fn = "create_square_grid" THEN ret.tuple[Len(ret.tuple)] ELSE ret.logging_list

\* C1: a call made without an explicit log list returns a log that holds
\* only the messages generated by that call, whatever calls came before.
C1_LogOnlyOwnMessages ==
    ( /\ call.fn \in { "create_square_grid", "measure_grid" }
      /\ Returned
      /\ (call.fn = "create_square_grid" => ~call.explicit_log) )
    => ReturnedLog = OwnMessages

\* C2: measure_grid asked for a square grid that does not fit the image does
\* not fail: the whole-image mask is the single region, the fallback notice
\* is in the returned log, and results are returned.
C2_MeasureGridFallsBack ==
    ( SquareCallRan("measure_grid") /\ ~GridFits(call.args) )
    => /\ ret.raised = "no"
       /\ Len(ret.grid_masks) = 1
       /\ ret.grid_masks[1] = OnesMask(call.args.img_shape)
       /\ \E k \in DOMAIN ret.logging_list : IsFallbackNotice(ret.logging_list[k])

C4_FallbackIffOutsideClosed ==
    SquareCallRan("create_square_grid")
    => ( ret.fallback
         <=> \E i \in 0 .. call.args.N_grid :
                \/ LineBelow(call.args, RowCentre(call.args), i, 0)
                \/ LineAbove(call.args, RowCentre(call.args), i, call.args.img_shape[1])
                \/ LineBelow(call.args, ColCentre(call.args), i, 0)
                \/ LineAbove(call.args, ColCentre(call.args), i, call.args.img_shape[2]) )

\* C4 amended: the fallback is taken exactly when a grid line lies outside
\* the half-open interval [1, dimension), the lines around center[1] being
\* held against the image width and those around center[0] against the height.
C4_FallbackIffOutsideHalfOpen ==
    SquareCallRan("create_square_grid")
    => ( ret.fallback
         <=> \E i \in 0 .. call.args.N_grid :
                \/ LineBelow(call.args, RowCentre(call.args), i, 1)
                \/ ~LineBelow(call.args, RowCentre(call.args), i, call.args.img_shape[2])
                \/ LineBelow(call.args, ColCentre(call.args), i, 1)
                \/ ~LineBelow(call.args, ColCentre(call.args), i, call.args.img_shape[1]) )

\* a fallback although every grid line lies within [0, dimension]
C4_Witness ==
    /\ SquareCallRan("create_square_grid")
    /\ ret.fallback
    /\ \A i \in 0 .. call.args.N_grid :
          /\ ~LineBelow(call.args, RowCentre(call.args), i, 0)
          /\ ~LineAbove(call.args, RowCentre(call.args), i, call.args.img_shape[1])
          /\ ~LineBelow(call.args, ColCentre(call.args), i, 0)
          /\ ~LineAbove(call.args, ColCentre(call.args), i, call.args.img_shape[2])

\* every grid line lies within the image on its own axis: the row lines
\* within [0, height], the column lines within [0, width]
LinesInsideImage(a) ==
    \A i \in 0 .. a.N_grid :
        /\ ~LineBelow(a, RowCentre(a), i, 0)
        /\ ~LineAbove(a, RowCentre(a), i, a.img_shape[1])
        /\ ~LineBelow(a, ColCentre(a), i, 0)
        /\ ~LineAbove(a, ColCentre(a), i, a.img_shape[2])

\* a grid that fits: its lines lie inside the image and pass the bounds check
SquareGridFits ==
    /\ SquareCallRan("create_square_grid")
    /\ GridFits(call.args)
    /\ LinesInsideImage(call.args)

\* the call returned the cells
SquareGridBuilt == ret.raised = "no" /\ ~ret.fallback

\* N_grid * N_grid cells labelled (row, col), row-major, pairwise disjoint
CellsLabelledAndDisjoint ==
    LET N == call.args.N_grid
        masks == ret.tuple[1]
        labels == ret.tuple[2]
    IN  /\ Len(masks) = N * N
        /\ Len(labels) = N * N
        /\ { labels[k] : k \in DOMAIN labels } = (0 .. N - 1) \X (0 .. N - 1)
        /\ \A k, l \in DOMAIN masks :
              k # l => Support(masks[k]) \cap Support(masks[l]) = { }

UnionOfCells == UNION { Support(ret.tuple[1][k]) : k \in DOMAIN ret.tuple[1] }

\* the pixels whose row and column lie in [center - width/2, center + width/2]
ClosedSquare ==
    LET a == call.args
    IN  { p \in Pixels(a.img_shape[1], a.img_shape[2]) :
            /\ ~LineAbove(a, RowCentre(a), 0, p[1]) /\ ~LineBelow(a, RowCentre(a), a.N_grid, p[1])
            /\ ~LineAbove(a, ColCentre(a), 0, p[2]) /\ ~LineBelow(a, ColCentre(a), a.N_grid, p[2]) }

\* the pixels whose row and column lie in
\* [int(center - width/2), int(center + width/2))
HalfOpenSquare ==
    LET a == call.args
        den == LineDen(a.scalex, a.N_grid)
        lo(c) == AsTypeInt(LineNum(c, a.scalex, a.N_grid, a.grid_size, 0), den)
        hi(c) == AsTypeInt(LineNum(c, a.scalex, a.N_grid, a.grid_size, a.N_grid), den)
    IN  { p \in Pixels(a.img_shape[1], a.img_shape[2]) :
            /\ lo(RowCentre(a)) <= p[1] /\ p[1] < hi(RowCentre(a))
            /\ lo(ColCentre(a)) <= p[2] /\ p[2] < hi(ColCentre(a)) }

\* C10 as claimed: for angle 0 and a grid that fits, N_grid*N_grid cells
\* labelled (row, col), pairwise disjoint, whose union is exactly the square
\* [center - width/2, center + width/2] on both axes.
C10_CellsTileClosedSquare ==
    SquareGridFits =>
        ( SquareGridBuilt /\ CellsLabelledAndDisjoint /\ UnionOfCells = ClosedSquare )

\* C10 amended: for angle 0 and a grid whose lines lie inside the image and
\* pass the bounds check, N_grid * N_grid cells labelled (row, col) are
\* returned, pairwise disjoint, and their union is the square of the pixels
\* from the truncated first grid line up to, not including, the truncated
\* last grid line.
C10_CellsTileHalfOpenSquare ==
    SquareGridFits =>
        ( SquareGridBuilt /\ CellsLabelledAndDisjoint /\ UnionOfCells = HalfOpenSquare )

C10_Witness ==
    /\ SquareGridFits
    /\ SquareGridBuilt
    /\ call.args.N_grid = 3
    /\ \A k \in DOMAIN ret.tuple[1] : Support(ret.tuple[1][k]) # { }
    /\ UnionOfCells # ClosedSquare

-----------------------------------------------------------------------------
(* Calls of the circular grids: one call per behaviour *)

CircShape == << 2 * MaxRadius + 3, 2 * MaxRadius + 3 >>

\* (x, y) centres: the middle of the image, one off it, one near the left edge
CircCentres ==
    { << MaxRadius + 1, MaxRadius + 1 >>,
      << MaxRadius, MaxRadius + 2 >>,
      << 2, MaxRadius + 1 >> }

Radii == 1 .. MaxRadius

Degrees ==
    { -150, -120, -91, -90, -89, -50, -46, -45, -44, -20, -1,
      0, 1, 20, 44, 45, 46, 50, 89, 90, 91, 120, 150 }

Angles == { << d, 0 >> : d \in Degrees }

EtdrsScales == { 600, 750, 1000 }

EtdrsMicrons == << 1000, 3000, 6000 >>

CircCalls ==
    { [ fn |-> "create_circular_grids",
        args |-> [ circle_mask |-> create_circular_mask(CircShape, c, << r >>),
                   angle |-> a ] ] :
        c \in CircCentres, r \in Radii, a \in Angles \cup { << 44, 1 >> } }
    \cup
    { [ fn |-> "measure_grid", measure_type |-> "etdrs", eye |-> e,
        args |-> [ img_shape |-> CircShape, fovea |-> c, scale |-> s, rotate |-> a,
                   etdrs_microns |-> EtdrsMicrons ],
        interp |-> TRUE, dtype |-> "uint64", fname |-> << >>, plot |-> FALSE, slo |-> << >> ] :
        c \in CircCentres, s \in EtdrsScales, e \in Eyes, a \in Angles }
    \cup
    { [ fn |-> "create_peripapillary_grid",
        args |-> [ radius |-> r, centre |-> c, img_shape |-> CircShape,
                   angle |-> a, eye |-> e ] ] :
        r \in Radii, c \in CircCentres, a \in Angles, e \in Eyes }

CreateCircularGrids ==
    /\ call.fn = "create_circular_grids"
    /\ ret = Pending
    /\ ret' = create_circular_grids(call.args.circle_mask, call.args.angle)
    /\ UNCHANGED << default_logging, call, thick_map, frame >>

EtdrsOutcomes ==
    With(measure_grid_subfields(ShapeOf(thick_map), call.args.fovea, call.args.scale,
                                call.eye, call.args.rotate, "etdrs",
                                [ etdrs_microns |-> call.args.etdrs_microns ],
                                default_logging),
         LAMBDA g :
            { measure_grid_plot(g, thick_map, call.args.scale, call.interp, "etdrs",
                                call.dtype, call.fname, call.plot, call.slo, env) :
                env \in Envs })

MeasureGridEtdrs ==
    /\ call.fn = "measure_grid"
    /\ call.measure_type = "etdrs"
    /\ ret = Pending
    /\ \E r \in EtdrsOutcomes :
          /\ ret' = [ x \in DOMAIN r \ { "logging", "thick_map" } |-> r[x] ]
          /\ default_logging' = r.logging
          /\ thick_map' = r.thick_map
    /\ UNCHANGED << call, frame >>

CreatePeripapillaryGrid ==
    /\ call.fn = "create_peripapillary_grid"
    /\ ret = Pending
    /\ ret' = LET a == call.args
              IN  create_peripapillary_grid(a.radius, a.centre, a.img_shape,
                                            a.angle, a.eye)
    /\ UNCHANGED << default_logging, call, thick_map, frame >>

InitCirc ==
    /\ default_logging = << >>
    /\ call \in CircCalls
    /\ ret = Pending
    /\ thick_map = DefaultMap(call)
    /\ frame = NoFrame

NextCirc == CreateCircularGrids \/ MeasureGridEtdrs \/ CreatePeripapillaryGrid

SpecCirc == InitCirc /\ [][NextCirc]_vars

-----------------------------------------------------------------------------
(* Calls of measure_grid on maps with and without pixels that lack data *)

MaxMissing == 1      \* most pixels without data scattered around the fovea

Dtypes == { "uint64", "float64" }

\* fname: None, a thickness map, a vessel density map
Fnames == { << >>, << "choroid", "thickness" >>, << "choroid", "vessel", "density" >> }

AggFovea == << MaxDim \div 2, MaxDim \div 2 >>

\* a square grid of 2 x 2 cells of 2 x 2 pixels around the fovea and one too
\* large for the image; an ETDRS grid of radii 1, 2 and 3
AggCalls ==
    { [ fn |-> "measure_grid", measure_type |-> "square", eye |-> e,
        args |-> [ img_shape |-> << MaxDim, MaxDim >>, center |-> AggFovea, scalex |-> 1,
                   N_grid |-> 2, grid_size |-> gs ],
        interp |-> i, dtype |-> d, fname |-> f, plot |-> FALSE, slo |-> << >> ] :
        e \in Eyes, gs \in { 4, MaxGridSize }, i \in BOOLEAN, d \in Dtypes, f \in Fnames }
    \cup
    { [ fn |-> "measure_grid", measure_type |-> "etdrs", eye |-> e,
        args |-> [ img_shape |-> << MaxDim + 1, MaxDim + 1 >>, fovea |-> AggFovea,
                   scale |-> 1000, rotate |-> << a, 0 >>, etdrs_microns |-> EtdrsMicrons ],
        interp |-> i, dtype |-> d, fname |-> f, plot |-> FALSE, slo |-> << >> ] :
        e \in Eyes, a \in { -1, 0 }, i \in BOOLEAN, d \in Dtypes, f \in Fnames }

\* the subfields the call c builds, as sets of pixels; none if the grid fails
SubfieldsOf(c) ==
    With(IF c.measure_type = "square"
         THEN measure_grid_subfields(c.args.img_shape, c.args.center, c.args.scalex, c.eye, 0,
                                     "square",
                                     [ N_grid |-> c.args.N_grid,
                                       grid_size |-> c.args.grid_size ], << >>)
         ELSE measure_grid_subfields(c.args.img_shape, c.args.fovea, c.args.scale, c.eye,
                                     c.args.rotate, "etdrs",
                                     [ etdrs_microns |-> c.args.etdrs_microns ], << >>),
         LAMBDA g : IF g.raised = "no" THEN g.bool_masks ELSE << >>)

\* a map of one value, and chessboards of the values 1 and 3 and of the
\* values 0 and 3
BaseMaps(img_shape) ==
    { [ p \in Pixels(img_shape[1], img_shape[2]) |-> 3 ],
      [ p \in Pixels(img_shape[1], img_shape[2]) |-> IF (p[1] + p[2]) % 2 = 1 THEN 1 ELSE 3 ],
      [ p \in Pixels(img_shape[1], img_shape[2]) |-> IF (p[1] + p[2]) % 2 = 1 THEN 0 ELSE 3 ] }

\* the pixels of the map without data: up to MaxMissing pixels of the 3 x 3
\* block around the fovea, or all the pixels of one subfield
MissingSets(c) ==
    { S \in SUBSET ((AggFovea[2] - 1 .. AggFovea[2] + 1) \X (AggFovea[1] - 1 .. AggFovea[1] + 1)) :
        Cardinality(S) <= MaxMissing }
    \cup With(SubfieldsOf(c), LAMBDA masks : { masks[k] : k \in DOMAIN masks })

\* every map keeps pixels with data
AggMaps(c) ==
    { [ p \in DOMAIN b |-> IF p \in S THEN -1 ELSE b[p] ] :
        b \in BaseMaps(c.args.img_shape), S \in MissingSets(c) }

InitAgg ==
    /\ default_logging = << >>
    /\ call \in AggCalls
    /\ thick_map \in AggMaps(call)
    /\ ret = Pending
    /\ frame = NoFrame

NextAgg == MeasureGridSquare \/ MeasureGridEtdrs

SpecAgg == InitAgg /\ [][NextAgg]_vars

-----------------------------------------------------------------------------
(* Calls of measure_grid with and without the plot *)

\* slo: None, or an image
Slos == { << >>, << "slo" >> }

\* the calls of a Right eye without a metric name, with every interp, dtype,
\* plot and slo
PlotCalls ==
    { [ c EXCEPT !.plot = p, !.slo = s ] :
        c \in { x \in AggCalls : x.eye = "Right" /\ x.fname = << >> },
        p \in BOOLEAN, s \in Slos }

InitPlot ==
    /\ default_logging = << >>
    /\ call \in PlotCalls
    /\ thick_map \in AggMaps(call)
    /\ ret = Pending
    /\ frame = NoFrame

SpecPlot == InitPlot /\ [][NextAgg]_vars

-----------------------------------------------------------------------------
(* Properties of the circular-grid calls *)

CircCallRan(fn) == call.fn = fn /\ ret # Pending

PairwiseDisjoint(masks) ==
    \A i, j \in DOMAIN masks : i # j => masks[i] \cap masks[j] = { }

UnionOf(masks) == UNION { masks[i] : i \in DOMAIN masks }

\* The disk of the radius lies inside the image.
DiskFits(img_shape, center, radius) ==
    /\ center[1] - radius >= 0
    /\ center[1] + radius <= img_shape[2] - 1
    /\ center[2] - radius >= 0
    /\ center[2] + radius <= img_shape[1] - 1

OuterRadius(a) == EtdrsRadius(a.etdrs_microns[Len(a.etdrs_microns)], a.scale)

EtdrsCallInContract ==
    /\ CircCallRan("measure_grid")
    /\ call.args.rotate[1] >= -120
    /\ call.args.rotate[1] <= 120
    /\ DiskFits(call.args.img_shape, call.args.fovea, OuterRadius(call.args))

\* C5 (create_etdrs_grid, measure_grid): for a centre, scale and angle in
\* [-120, 120] whose outer circle fits the image, the nine ETDRS subfield
\* masks are built, are pairwise disjoint and their union is the outermost
\* circle mask.
C5_EtdrsMasksPartitionOuterCircle ==
    EtdrsCallInContract =>
        /\ ret.raised = "no"
        /\ Len(ret.grid_masks) = 9
        /\ PairwiseDisjoint(ret.grid_masks)
        /\ UnionOf(ret.grid_masks)
              = create_circular_mask(call.args.img_shape, call.args.fovea,
                                     << OuterRadius(call.args) >>)

\* C6 (create_peripapillary_grid): for any radius, centre, angle and eye
\* the seven masks are returned, are pairwise disjoint and their union is
\* the disk of the given radius.  A call whose bisecting line has no slope
\* is left out: its outcome is decided in bscan_utils.construct_line.
C6_PeripapillaryMasksPartitionDisk ==
    ( CircCallRan("create_peripapillary_grid") /\ ret.raised # "VerticalLine" ) =>
        /\ ret.raised = "no"
        /\ Len(ret.masks) = 7
        /\ PairwiseDisjoint(ret.masks)
        /\ UnionOf(ret.masks)
              = create_circular_mask(call.args.img_shape, call.args.centre,
                                     << call.args.radius >>)

\* C7 (create_circular_grids): for a disk mask and any angle four masks are
\* returned, pairwise disjoint, whose union is the input disk.
C7_QuadrantsPartitionDisk ==
    CircCallRan("create_circular_grids") =>
        /\ ret.raised = "no"
        /\ Len(ret.masks) = 4
        /\ PairwiseDisjoint(ret.masks)
        /\ UnionOf(ret.masks) = call.args.circle_mask

Turns == { -1, 1 }

\* C8 (create_circular_grids): angle and angle + 360 * k give the same
\* quadrant masks in the same order, for k positive or negative.
C8_RotationPeriodicity ==
    CircCallRan("create_circular_grids") =>
        \A k \in Turns :
            create_circular_grids(call.args.circle_mask,
                << call.args.angle[1] + 360 * k, call.args.angle[2] >>) = ret

\* Positions of temporal, supero-temporal, supero-nasal, nasal, infero-nasal,
\* infero-temporal and centre after exchanging temporal and nasal.
TemporalNasalSwap == << 3, 2, 1, 0, 5, 4, 6 >>

OtherEye(eye) == IF eye = "Left" THEN "Right" ELSE "Left"

\* C9 (create_peripapillary_grid): for the same radius, centre, image shape
\* and angle the result for one eye is the result for the other eye with
\* temporal <-> nasal, supero-temporal <-> supero-nasal and infero-temporal
\* <-> infero-nasal exchanged and the central disc last; the two calls fail
\* together.
C9_LateralitySymmetry ==
    CircCallRan("create_peripapillary_grid") =>
        LET a == call.args
            other == create_peripapillary_grid(a.radius, a.centre, a.img_shape,
                                               a.angle, OtherEye(a.eye))
        IN  /\ other.raised = ret.raised
            /\ ret.raised = "no" =>
                  /\ ret.masks = Reorder(other.masks, TemporalNasalSwap)
                  /\ ret.masks[7] = other.masks[7]

C9_Witness ==
    /\ CircCallRan("create_peripapillary_grid")
    /\ call.args.eye = "Left"
    /\ ret.raised = "no"
    /\ \A i \in 1 .. 7 : ret.masks[i] # { }
    /\ ret.masks[1] # ret.masks[4]
    /\ ret.masks[2] # ret.masks[3]
    /\ ret.masks[5] # ret.masks[6]

-----------------------------------------------------------------------------
(* Properties of the aggregation *)

AggCallRan == call.fn = "measure_grid" /\ ret # Pending

\* the call c of measure_grid on the array map with the given interp
MeasureGridCall(c, map, interp, env) ==
    IF c.measure_type = "square"
    THEN measure_grid(map, c.args.center, c.args.scalex, c.eye, interp, 0, "square",
                      [ N_grid |-> c.args.N_grid, grid_size |-> c.args.grid_size ],
                      c.dtype, c.fname, << >>, env)
    ELSE measure_grid(map, c.args.fovea, c.args.scale, c.eye, interp, c.args.rotate, "etdrs",
                      [ etdrs_microns |-> c.args.etdrs_microns ],
                      c.dtype, c.fname, << >>, env)

CallScale == IF call.measure_type = "square" THEN call.args.scalex ELSE call.args.scale

\* the pixels of the subfield without data, and those with data
MissingIn(mask) == { p \in mask : thick_map[p] = -1 }

KnownIn(mask) == mask \ MissingIn(mask)

\* the grid of the call was built and no pixel of it lacks data
NoSentinelInGrid ==
    /\ SubfieldsOf(call) # << >>
    /\ \A k \in DOMAIN SubfieldsOf(call) : MissingIn(SubfieldsOf(call)[k]) = { }

\* C11 (measure_grid): on a map without -1 inside the grid the call returns,
\* and with the other value of interp it returns the same statistics and the
\* same volumes, for dtype uint64 and for dtype float64.
C11_InterpIdempotentWithoutSentinel ==
    ( AggCallRan /\ NoSentinelInGrid ) =>
        \A env \in Envs :
            With(MeasureGridCall(call, thick_map, ~call.interp, env),
                 LAMBDA other :
                    /\ ret.raised = "no"
                    /\ other.raised = "no"
                    /\ other.grid_dict = ret.grid_dict
                    /\ other.gridvol_dict = ret.gridvol_dict)

\* the values of the subfield after interpolation: mapmask of line 633
InterpolatedSubfield(mask, env) ==
    With(FillMissing(NpCopy(<< thick_map >>, 1), mask, << >>, call.measure_type, env),
         LAMBDA f : IF f.raised = "no" THEN f.heap[f.ref] ELSE thick_map)

\* the map with every pixel of the grid taken from its interpolated subfield
InterpolatedAll(env) ==
    With([ k \in DOMAIN ret.grid_subgrids |->
             InterpolatedSubfield(SubfieldsOf(call)[k], env) ],
         LAMBDA filled :
            [ p \in DOMAIN thick_map |->
                IF \E k \in DOMAIN filled : p \in SubfieldsOf(call)[k]
                THEN filled[CHOOSE k \in DOMAIN filled : p \in SubfieldsOf(call)[k]][p]
                ELSE thick_map[p] ])

\* C12 (measure_grid): with interp on, the entry "all" of the statistics
\* (and of the volumes for dtype uint64) is the statistic (the volume) of the
\* interpolated values over the union of the subfield masks, so no -1 enters it.
C12_AllUsesInterpolatedValues ==
    ( AggCallRan /\ call.interp /\ ret.raised = "no" ) =>
        \E env \in Envs :
            With(InterpolatedAll(env),
                 LAMBDA filled :
                    /\ \A p \in ret.all_mask : filled[p] # -1
                    /\ Get(ret.grid_dict, << "all" >>)
                          = Statistic(filled, ret.all_mask, call.dtype, env.platform)
                    /\ call.dtype = "uint64" =>
                          Get(ret.gridvol_dict, << "all" >>)
                             = Volume(filled, ret.all_mask, delta_xy(CallScale, call.fname)))

MessagesNaming(sub) ==
    { i \in DOMAIN ret.logging_list :
         /\ "prop_missing" \in DOMAIN ret.logging_list[i]
         /\ ret.logging_list[i].sub = sub }

\* C13 (measure_grid): with interp on, a subfield with a pixel without data
\* and a pixel with data gets exactly one "% missing" message, which names it
\* and gives 100 * missing / size (to two decimals), and its mean differs
\* from the mean of its raw values; a subfield without -1 gets no message.
C13_MissingLoggedAndMeanDiffers ==
    ( AggCallRan /\ call.interp /\ ret.raised = "no" ) =>
        \A k \in DOMAIN ret.grid_subgrids :
            With(SubfieldsOf(call)[k],
                 LAMBDA mask :
                    /\ MissingIn(mask) = { } => MessagesNaming(ret.grid_subgrids[k]) = { }
                    /\ ( MissingIn(mask) # { } /\ KnownIn(mask) # { } ) =>
                          /\ Cardinality(MessagesNaming(ret.grid_subgrids[k])) = 1
                          /\ \A i \in MessagesNaming(ret.grid_subgrids[k]) :
                                ret.logging_list[i].prop_missing
                                   = NpRound(10000 * Cardinality(MissingIn(mask)),
                                             Cardinality(mask))
                          /\ \A pf \in { "x86_64", "aarch64" } :
                                Get(ret.grid_dict, ret.grid_subgrids[k])
                                   # Statistic(thick_map, mask, call.dtype, pf))

\* a subfield of the call all of whose pixels lack data
WhollyMissing(k) ==
    SubfieldsOf(call)[k] # { } /\ KnownIn(SubfieldsOf(call)[k]) = { }

\* C14 (measure_grid, interp_missing): with interp on and a subfield whose
\* pixels all hold -1 the call returns; that subfield's statistic is NaN or
\* the sentinel -1 and every other subfield has a number.
C14_WhollyMissingSubfieldDefined ==
    ( AggCallRan /\ call.interp /\ SubfieldsOf(call) # << >>
      /\ \E k \in DOMAIN SubfieldsOf(call) : WhollyMissing(k) ) =>
        /\ ret.raised = "no"
        /\ \A k \in DOMAIN ret.grid_subgrids :
              IF WhollyMissing(k)
              THEN Get(ret.grid_dict, ret.grid_subgrids[k]) \in { NotANumber, Num(-1) }
              ELSE Get(ret.grid_dict, ret.grid_subgrids[k]).kind = "num"

\* C15 (measure_grid, interp_missing): no step of measure_grid changes the
\* array the caller passed as thick_map, whatever the grid, interp, dtype and
\* the pixels without data.
C15_CallerMapNeverMutated == [][thick_map' = thick_map]_vars

\* a call that copied the map, filled a subfield and returned
C15_Witness ==
    /\ AggCallRan
    /\ call.interp
    /\ ret.raised = "no"
    /\ \E p \in ret.all_mask : thick_map[p] = -1
    /\ \E i \in DOMAIN ret.logging_list : "prop_missing" \in DOMAIN ret.logging_list[i]

\* the subfields of the returned call that have pixels, all of them with data
FullSubfields ==
    { k \in DOMAIN ret.grid_subgrids :
         SubfieldsOf(call)[k] # { } /\ MissingIn(SubfieldsOf(call)[k]) = { } }

\* C18 (measure_grid): the statistic of a subfield is the mean of its values
\* rounded to the nearest integer for dtype uint64 and to the nearest
\* multiple of 0.001 for dtype float64.
C18_StatisticIsRoundedMean ==
    ( AggCallRan /\ ret.raised = "no" ) =>
        \A k \in FullSubfields :
            Get(ret.grid_dict, ret.grid_subgrids[k])
               = Num(NpRound(SumOver(thick_map, SubfieldsOf(call)[k])
                                * (IF call.dtype = "uint64" THEN 1 ELSE 1000),
                             Cardinality(SubfieldsOf(call)[k])))

\* the per-pixel factor of the volume in units of 1e-9: scale, times scale
\* once more for a vessel density map
AreaOrLengthFactor(scale, fname) ==
    IF ContainsVessel(fname) THEN scale * scale ELSE scale

\* C19 (measure_grid): for dtype uint64 the volume of a subfield is the sum
\* of its values times scale / 1e9, times scale once more exactly when the
\* name is that of a vessel density map, to three decimals; for dtype
\* float64 there is no volume entry.
C19_VolumeFactorByMetric ==
    ( AggCallRan /\ ret.raised = "no" ) =>
        IF call.dtype = "uint64"
        THEN \A k \in FullSubfields :
                Get(ret.gridvol_dict, ret.grid_subgrids[k])
                   = Num(NpRound(AreaOrLengthFactor(CallScale, call.fname)
                                    * SumOver(thick_map, SubfieldsOf(call)[k]),
                                 1000000))
        ELSE ret.gridvol_dict = << >>

EtdrsKeys ==
    { << "central" >>, << "all" >> }
    \cup { << ring, loc >> : ring \in { "inner", "outer" },
                            loc \in { "superior", "temporal", "inferior", "nasal" } }

\* the subfield lies left of the fovea column: the mean column of its
\* pixels is smaller
LeftOfFovea(mask) == CoordSum(mask, 2, MaxCoord(mask, 2)) < Cardinality(mask) * call.args.fovea[1]

RightOfFovea(mask) == CoordSum(mask, 2, MaxCoord(mask, 2)) > Cardinality(mask) * call.args.fovea[1]

\* the mask of the subfield named sub
MaskNamed(sub) ==
    ret.grid_masks[CHOOSE k \in DOMAIN ret.grid_subgrids : ret.grid_subgrids[k] = sub]

\* C20 (measure_grid, create_circular_grids): an ETDRS call within the
\* contract returns statistics under exactly the ten keys central, inner_ and
\* outer_ superior / temporal / inferior / nasal, and all; for a rotation
\* within [-44, 44] the quadrants on the image-left are named temporal for a
\* Right eye and nasal for a Left eye, those on the image-right the converse.
C20_EtdrsKeysAndLaterality ==
    EtdrsCallInContract =>
        /\ ret.raised = "no"
        /\ Len(ret.grid_dict) = 10
        /\ Keys(ret.grid_dict) = EtdrsKeys
        /\ ( Abs(call.args.rotate[1]) <= 44 ) =>
              \A ring \in { "inner", "outer" } :
                 /\ LeftOfFovea(MaskNamed(<< ring, IF call.eye = "Right" THEN "temporal"
                                                   ELSE "nasal" >>))
                 /\ RightOfFovea(MaskNamed(<< ring, IF call.eye = "Right" THEN "nasal"
                                                    ELSE "temporal" >>))

-----------------------------------------------------------------------------
(* analyse of analyse_slo.py, from its first line to the image metadata     *)
(* (lines 106 - 382), for a call with the default segmentation_dict, the    *)
(* default models and a save_path that exists.                              *)
(*                                                                          *)
(* A scale is a record: None, a number held in tenths of a micron per       *)
(* pixel, a float NaN, or a value that is neither a float nor an int.       *)
(* A message is a record with the field text and the value formatted into   *)
(* it.  metadata is a dict.  The outputs of the three segmentation models   *)
(* are inputs of the step that calls them: the fovea (x, y), (0, 0) when    *)
(* none is found, the optic-disc centre (x, y) or None, and the binary      *)
(* vessel map, held as the pair of the sums of its left and right halves.   *)
(* For the image widths of SloWidths the products 0.1 * N, 0.45 * N,        *)
(* 0.5 * N, 0.55 * N and 0.9 * N are exact in binary floating point, so     *)
(* the comparisons are written on integers.                                 *)

None == "None"

NoScale == [ kind |-> "None" ]

Number(tenths) == [ kind |-> "num", tenths |-> tenths ]

NotANumberScale == [ kind |-> "nan" ]

\* isinstance(scale, (float, int)), line 170
IsFloatOrInt(scale) == scale.kind \in { "num", "nan" }

\* scale > n and scale < n of line 176: a comparison with NaN is False
GreaterThan(scale, n) == scale.kind = "num" /\ scale.tenths > 10 * n

LessThan(scale, n) == scale.kind = "num" /\ scale.tenths < 10 * n

\* a slip that rejects the two ends of the range
OutsideOpenRange(scale) == ~ LessThan(scale, 20) \/ ~ GreaterThan(scale, 3)

\* line 176
OutsideRange(scale) == GreaterThan(scale, 20) \/ LessThan(scale, 3)

NotFloatOrIntText ==
    "Pixel lengthscale {scale} should be a float or integer. Ignoring scale and measuring in pixels."

ScaleRangeText ==
    "Pixel lengthscale {scale} should be in [3,20] microns-per-pixel. Is your scale in mm-per-pixel?. Ignoring scale and measuring in pixels."

SegmentingText == "SEGMENTING..."

FoveaAndDiscText ==
    "Using the position of the fovea and optic disc, we infer it is the {eye} eye."

DiscLeftText ==
    "The optic disc is nearer the left of the image, and so the SLO image is assumed to be the {eye} eye. Please check."

DiscRightText ==
    "The optic disc is nearer the right of the image, and so the SLO image is assumed to be the {eye} eye. Please check."

DiscCentreEyeText ==
    "The optic disc is near the centre of the image,  and no fovea is detected. The SLO image is assumed as the {eye} eye. Please check."

VesselHalvesText ==
    "Detecting eye based on which half of image has highest proportion of vessel pixels. Thus, the SLO image is assumed as the {eye} eye. Please check."

Message(text, arg) == [ text |-> text, arg |-> arg ]

\* msg = ...; logging_list.append(msg)
Log(f, text, arg) ==
    [ f EXCEPT !.msg = Message(text, arg),
               !.logging_list = Append(@, Message(text, arg)) ]

\* metadata[key] = value
MetadataSet(f, key, value) == [ f EXCEPT !.metadata = DictSet(@, key, value) ]

\* the local variables when analyse is entered, lines 15 - 108
EnterAnalyse(c) ==
    [ pc |-> "load", scale |-> c.scale, eye |-> c.eye, location |-> c.location,
      N |-> 0, fovea |-> << >>, od_centre |-> << >>, slo_vbinmap |-> << >>,
      msg |-> Message("", ""), logging_list |-> << >>, metadata |-> << >> ]

\* lines 110 - 165: path is an image file or an array, or the call returns
analyse_load(f, c) ==
    IF c.path \in { "file", "array" }
    THEN [ Log(MetadataSet(f, "Filename", c.fname), "ANALYSING SLO of {fname}.", c.fname)
             EXCEPT !.N = c.img_shape[2], !.pc = "scale" ]
    ELSE [ Log(f, "Unknown filetype, must be either string/filepath/numpy array.", "") EXCEPT !.pc = "returned" ]

\* lines 168 - 181; a scale that is neither float nor int is set to None and
\* then compared with 20, which raises TypeError
analyse_scale(f) ==
    IF f.scale = NoScale
    THEN [ f EXCEPT !.pc = "segment" ]
    ELSE IF ~ IsFloatOrInt(f.scale)
    THEN [ Log(f, NotFloatOrIntText, f.scale) EXCEPT !.scale = NoScale, !.pc = "TypeError" ]
    ELSE IF OutsideRange(f.scale)
    THEN [ Log(f, ScaleRangeText, f.scale) EXCEPT !.scale = NoScale, !.pc = "segment" ]
    ELSE [ f EXCEPT !.pc = "segment" ]

\* lines 264 - 268
WarnOdMissing(f) == IF f.od_centre = << >> THEN Log(f, "WARNING: Optic disc not detected. Please check image.", "") ELSE f

\* lines 215 - 270, the models answering fovea, od_centre and slo_vbinmap
analyse_segment(f, fovea, od_centre, slo_vbinmap) ==
    [ WarnOdMissing(
        Log(Log(Log(Log(Log([ f EXCEPT !.fovea = fovea, !.od_centre = od_centre,
                                       !.slo_vbinmap = slo_vbinmap ],
                            SegmentingText, ""),
                        "Loading models...", ""),
                    "Segmenting binary vessels from SLO image.", ""),
                "Segmenting fovea from SLO image.", ""),
            "Segmenting artery-vein vessels and optic disc from SLO image.", ""))
        EXCEPT !.pc = "location" ]

\* lines 283 - 286
DetectLocation(f) ==
    IF /\ f.od_centre # << >>
       /\ f.N < 10 * f.od_centre[1]
       /\ 10 * f.od_centre[1] < 9 * f.N
    THEN "Optic disc"
    ELSE "Macula"

\* lines 273 - 296
analyse_location(f) ==
    With(Log(MetadataSet(f, "location", f.location), "Inferring image metadata...", ""),
         LAMBDA g :
            IF g.location = None
            THEN With(DetectLocation(g),
                      LAMBDA location :
                         [ MetadataSet(Log(g, "No location specified. Detected SLO image to be {location}-centred.", location),
                                       "location", location)
                             EXCEPT !.location = location, !.pc = "eye" ])
            ELSE [ Log(g, "Location is specified as {location}-centred.", g.location) EXCEPT !.pc = "eye" ])

FoveaDetected(f) == f.fovea[1] + f.fovea[2] # 0

SetEye(f, eye, text) == [ f EXCEPT !.eye = eye, !.msg = Message(text, eye) ]

\* lines 319 - 325: the disc strictly between 0.45 N and 0.55 N
InferFromCentralDisc(f) ==
    IF 2 * f.od_centre[1] < f.N
    THEN SetEye(f, "Left", DiscCentreEyeText)
    ELSE IF 2 * f.od_centre[1] > f.N
    THEN SetEye(f, "Right", DiscCentreEyeText)
    ELSE [ f EXCEPT !.msg = Message("The optic disc is near the centre of the image, ", "") ]

\* lines 311 - 325: no fovea, the disc against 0.45 N and 0.55 N; on a
\* threshold no branch is taken and eye and msg keep their values
InferFromDisc(f) ==
    IF 100 * f.od_centre[1] < 45 * f.N
    THEN SetEye(f, "Left", DiscLeftText)
    ELSE IF 100 * f.od_centre[1] > 55 * f.N
    THEN SetEye(f, "Right", DiscRightText)
    ELSE IF 45 * f.N < 100 * f.od_centre[1] /\ 100 * f.od_centre[1] < 55 * f.N
    THEN InferFromCentralDisc(f)
    ELSE f

\* lines 330 - 336
InferFromVessels(f) ==
    SetEye(f, IF f.slo_vbinmap[1] >= f.slo_vbinmap[2] THEN "Left" ELSE "Right",
           VesselHalvesText)

\* lines 302 - 336
InferEye(f) ==
    IF FoveaDetected(f) /\ f.od_centre # << >>
    THEN SetEye(f, IF f.fovea[1] < f.od_centre[1] THEN "Right" ELSE "Left", FoveaAndDiscText)
    ELSE IF f.od_centre # << >> /\ ~ FoveaDetected(f)
    THEN InferFromDisc(f)
    ELSE IF f.od_centre = << >>
    THEN InferFromVessels(f)
    ELSE f

\* lines 298 - 347
analyse_eye(f) ==
    IF f.eye = None
    THEN With(InferEye(f),
              LAMBDA g : [ g EXCEPT !.logging_list = Append(@, g.msg), !.pc = "metadata" ])
    ELSE [ Log(f, "Eye type is specified as the {eye} eye.", f.eye) EXCEPT !.pc = "metadata" ]

\* lines 350 - 361
StoreFovea(f) ==
    With(IF FoveaDetected(f) THEN f ELSE Log(f, "Fovea was not detected. Please double-check image.", ""),
         LAMBDA g :
            MetadataSet(MetadataSet(MetadataSet(g, "slo_fovea_x", f.fovea[1]),
                                    "slo_fovea_y", f.fovea[2]),
                        "slo_missing_fovea", ~ FoveaDetected(f)))

\* lines 366 - 372, for a disc centre that is not None
StoreOpticDisc(f) ==
    IF f.location = "Optic disc"
    THEN MetadataSet(MetadataSet(MetadataSet(f, "optic_disc_x", f.od_centre[1]),
                                 "optic_disc_y", f.od_centre[2]),
                     "optic_disc_radius_px", "od_radius")
    ELSE MetadataSet(f, "optic_disc_radius_px", None)

\* lines 373 - 382
StoreScale(f) ==
    With(MetadataSet(f, "scale", f.scale),
         LAMBDA g :
            IF f.scale = NoScale
            THEN Log(MetadataSet(g, "measurement_units", "px"),
                     "Measurements which have units are in {measurement_units} units. Otherwise they are non-dimensional.",
                     "px")
            ELSE Log(MetadataSet(MetadataSet(g, "measurement_units", "microns"),
                                 "scale_units", "microns-per-pixel"),
                     "Measurements which have units are in {measurement_units} units. Otherwise they are non-dimensional.",
                     "microns"))

\* lines 347 - 382; od_centre[0] of line 368 raises TypeError on None
analyse_metadata(f) ==
    With(StoreFovea(MetadataSet(MetadataSet(f, "eye", f.eye), "manual_annotation", FALSE)),
         LAMBDA g :
            IF g.location = "Optic disc" /\ g.od_centre = << >>
            THEN [ g EXCEPT !.pc = "TypeError" ]
            ELSE [ StoreScale(StoreOpticDisc(g)) EXCEPT !.pc = "features" ])

-----------------------------------------------------------------------------
(* Calls of analyse: Init draws the call, one action per block of analyse *)

SloWidths == { 20, 30 }

\* 2.9, 3, 10, 20 and 20.1 microns per pixel, NaN, and the string "10"
SloScales ==
    { NoScale, NotANumberScale, [ kind |-> "str", text |-> "10" ] }
    \cup { Number(t) : t \in { 29, 30, 100, 200, 201 } }

AnalyseCalls ==
    { [ fn |-> "analyse", path |-> p, fname |-> "slo.png", img_shape |-> << n, n >>,
        scale |-> s, location |-> l, eye |-> e ] :
        p \in { "file", "array" }, n \in SloWidths, s \in SloScales,
        l \in { None, "Macula", "Optic disc" }, e \in { None } \cup Eyes }
    \cup
    { [ fn |-> "analyse", path |-> "other", fname |-> "slo.png", img_shape |-> << n, n >>,
        scale |-> NoScale, location |-> None, eye |-> None ] : n \in SloWidths }

\* the answers of fov_model.predict_img: no fovea, a fovea left or right of the centre
FoveaPredictions(N) == { << 0, 0 >>, << N \div 4, N \div 2 >>, << (3 * N) \div 4, N \div 2 >> }

\* the answers of avo_model.predict_img: no disc, or a disc in the middle
\* row, its column at, next to and away from 0.1 N, 0.45 N, 0.5 N, 0.55 N and 0.9 N
OdPredictions(N) ==
    { << >> }
    \cup { << x, N \div 2 >> :
             x \in { 1, N \div 10, N \div 5, (9 * N) \div 20, N \div 2 - 1, N \div 2,
                     N \div 2 + 1, (11 * N) \div 20, (4 * N) \div 5, (9 * N) \div 10 } }

\* the sums of the left and right halves of slo_model.predict_img
VesselPredictions == { << 5, 3 >>, << 4, 4 >>, << 3, 5 >> }

AnalyseLoad ==
    /\ call.fn = "analyse"
    /\ frame.pc = "load"
    /\ frame' = analyse_load(frame, call)
    /\ ret' = IF frame'.pc = "returned" THEN [ raised |-> "no", value |-> None ] ELSE ret
    /\ UNCHANGED << default_logging, call, thick_map >>

AnalyseScale ==
    /\ frame.pc = "scale"
    /\ frame' = analyse_scale(frame)
    /\ ret' = IF frame'.pc = "TypeError" THEN [ raised |-> "TypeError" ] ELSE ret
    /\ UNCHANGED << default_logging, call, thick_map >>

AnalyseSegment ==
    /\ frame.pc = "segment"
    /\ \E fovea \in FoveaPredictions(frame.N), od_centre \in OdPredictions(frame.N),
          slo_vbinmap \in VesselPredictions :
          frame' = analyse_segment(frame, fovea, od_centre, slo_vbinmap)
    /\ UNCHANGED << default_logging, call, ret, thick_map >>

AnalyseLocation ==
    /\ frame.pc = "location"
    /\ frame' = analyse_location(frame)
    /\ UNCHANGED << default_logging, call, ret, thick_map >>

AnalyseEye ==
    /\ frame.pc = "eye"
    /\ frame' = analyse_eye(frame)
    /\ UNCHANGED << default_logging, call, ret, thick_map >>

AnalyseMetadata ==
    /\ frame.pc = "metadata"
    /\ frame' = analyse_metadata(frame)
    /\ ret' = IF frame'.pc = "TypeError" THEN [ raised |-> "TypeError" ] ELSE ret
    /\ UNCHANGED << default_logging, call, thick_map >>

InitAnalyse ==
    /\ default_logging = << >>
    /\ call \in AnalyseCalls
    /\ thick_map = NoArray
    /\ ret = Pending
    /\ frame = EnterAnalyse(call)

NextAnalyse ==
    \/ AnalyseLoad
    \/ AnalyseScale
    \/ AnalyseSegment
    \/ AnalyseLocation
    \/ AnalyseEye
    \/ AnalyseMetadata

SpecAnalyse == InitAnalyse /\ [][NextAnalyse]_vars

-----------------------------------------------------------------------------
(* Properties of analyse *)

\* the positions of the messages of the log with the given text
MessagesWith(text) ==
    { i \in DOMAIN frame.logging_list : frame.logging_list[i].text = text }

\* the block of analyse that handles the scale has run
ScaleHandled == call.fn = "analyse" /\ frame.pc \notin { "load", "scale", "returned" }

MetadataStored == call.fn = "analyse" /\ frame.pc = "features"

InRange(scale) == scale.kind = "num" /\ scale.tenths >= 30 /\ scale.tenths <= 200

\* C16 (analyse): a numeric scale outside [3, 20] microns per pixel is
\* dropped with exactly one diagnostic message and the analysis goes on, the
\* metadata recording the scale None and the units "px"; a numeric scale
\* inside [3, 20], 3 and 20 included, is kept without a message and the
\* metadata records it with the units "microns".
C16_ScaleOutsideRangeDiscarded ==
    ( ScaleHandled /\ call.scale.kind = "num" ) =>
        /\ frame.pc = "segment" \/ MessagesWith(SegmentingText) # { }
        /\ MessagesWith(NotFloatOrIntText) = { }
        /\ IF InRange(call.scale)
           THEN /\ MessagesWith(ScaleRangeText) = { }
                /\ frame.scale = call.scale
                /\ MetadataStored =>
                      /\ Get(frame.metadata, "scale") = call.scale
                      /\ Get(frame.metadata, "measurement_units") = "microns"
           ELSE /\ Cardinality(MessagesWith(ScaleRangeText)) = 1
                /\ \A i \in MessagesWith(ScaleRangeText) :
                      frame.logging_list[i].arg = call.scale
                /\ frame.scale = NoScale
                /\ MetadataStored =>
                      /\ Get(frame.metadata, "scale") = NoScale
                      /\ Get(frame.metadata, "measurement_units") = "px"
                      /\ "scale_units" \notin Keys(frame.metadata)

\* a scale below 3 or above 20 was dropped and the metadata is stored
C16_Witness ==
    /\ MetadataStored
    /\ call.scale.kind = "num"
    /\ ~ InRange(call.scale)
    /\ Get(frame.metadata, "measurement_units") = "px"

\* the block of analyse that settles the eye has just run
EyeHandled == call.fn = "analyse" /\ frame.pc = "metadata"

EyeMessageTexts ==
    { FoveaAndDiscText, DiscLeftText, DiscRightText, DiscCentreEyeText, VesselHalvesText }

FoveaOrDiscMissing == ~ FoveaDetected(frame) \/ frame.od_centre = << >>

\* C17 (analyse): when eye is not passed and the fovea or the optic-disc
\* centre is not detected, the eye is settled as "Right" or "Left", by the
\* vessels of the two image halves when there is no disc, the message the
\* block appends states the inferred eye, and the metadata never stores an
\* undefined eye, wherever the optic disc lies.
C17_LateralityAlwaysResolved ==
    /\ ( EyeHandled /\ call.eye = None /\ FoveaOrDiscMissing ) =>
          /\ frame.eye \in Eyes
          /\ frame.logging_list[Len(frame.logging_list)].text \in EyeMessageTexts
          /\ frame.logging_list[Len(frame.logging_list)].arg = frame.eye
          /\ ( frame.od_centre = << >> ) =>
                frame.logging_list[Len(frame.logging_list)].text = VesselHalvesText
    /\ ( MetadataStored /\ call.eye = None /\ FoveaOrDiscMissing ) =>
          Get(frame.metadata, "eye") \in Eyes

-----------------------------------------------------------------------------
(* Properties of the names of the square cells *)

\* the integer spelled by a sequence of digit characters
RECURSIVE ParseDecimal(_)
ParseDecimal(chars) ==
    IF chars = << >> THEN 0
    ELSE 10 * ParseDecimal(SubSeq(chars, 1, Len(chars) - 1))
            + (CHOOSE d \in 0 .. 9 : DigitChars[d + 1] = chars[Len(chars)])

DotsOf(name) == { i \in DOMAIN name : name[i] = "." }

\* the numbers before and after the dot of a name "row.col"
RowNumber(name) == ParseDecimal(SubSeq(name, 1, (CHOOSE i \in DotsOf(name) : TRUE) - 1))

ColNumber(name) == ParseDecimal(SubSeq(name, (CHOOSE i \in DotsOf(name) : TRUE) + 1, Len(name)))

SquareMeasured == SquareCallRan("measure_grid") /\ ret.raised = "no"

\* the names the same call gives the cells for the other eye
NamesForOtherEye ==
    measure_grid_square(call.args.img_shape, call.args.center, call.args.scalex,
                        OtherEye(call.eye),
                        call.args.N_grid, call.args.grid_size, << >>).grid_subgrids

\* the labels of a grid of n x n cells
LabelsOf(n) == (0 .. n - 1) \X (0 .. n - 1)

\* C21 (measure_grid, square grid): the N_grid * N_grid cells are named
\* "row.col" with numbers in 1 .. N_grid, pairwise distinct within the call;
\* the name the other eye gives a cell has the same row number and a column
\* number that adds up with this one to N_grid + 1.  The names of a grid of
\* twelve cells a side, with two-digit numbers, are pairwise distinct too.
C21_SquareNamesMirrorByEye ==
    SquareMeasured =>
        /\ Len(ret.grid_subgrids) = call.args.N_grid * call.args.N_grid
        /\ \A k \in DOMAIN ret.grid_subgrids :
              /\ Cardinality(DotsOf(ret.grid_subgrids[k])) = 1
              /\ RowNumber(ret.grid_subgrids[k]) \in 1 .. call.args.N_grid
              /\ ColNumber(ret.grid_subgrids[k]) \in 1 .. call.args.N_grid
              /\ RowNumber(NamesForOtherEye[k]) = RowNumber(ret.grid_subgrids[k])
              /\ ColNumber(NamesForOtherEye[k]) + ColNumber(ret.grid_subgrids[k])
                    = call.args.N_grid + 1
        /\ \A k, l \in DOMAIN ret.grid_subgrids :
              k # l => ret.grid_subgrids[k] # ret.grid_subgrids[l]
        /\ \A l1, l2 \in LabelsOf(12) :
              l1 # l2 => SquareName(l1, 12, call.eye) # SquareName(l2, 12, call.eye)

\* a grid of three cells a side was named for a Left eye
C21_Witness ==
    /\ SquareMeasured
    /\ call.eye = "Left"
    /\ call.args.N_grid = 3
    /\ Len(ret.grid_subgrids) = 9

-----------------------------------------------------------------------------
(* Properties of the angle handling of create_circular_grids *)

\* the angle <<deg, eps>> is at most / at least n degrees
AngleAtMost(angle, n) == angle[1] < n \/ (angle[1] = n /\ angle[2] <= 0)

AngleAtLeast(angle, n) == angle[1] > n \/ (angle[1] = n /\ angle[2] >= 0)

\* the angle after the modulo of line 132
WrappedAngle(angle) ==
    IF AngleSign(angle) = 0 THEN angle ELSE ModSigned(angle, AngleSign(angle))

\* C22 (create_circular_grids): for every angle given, the modulo leaves an
\* angle in [-120, 120], the angle used by the band test lies in [-44, 44],
\* and the relabelling count is 0, 1 or 2, being 0 exactly when the
\* magnitude of the angle after the modulo is at most 44.
C22_AngleNormalizedIntoRange ==
    CircCallRan("create_circular_grids") =>
        /\ AngleAtLeast(WrappedAngle(call.args.angle), -120)
        /\ AngleAtMost(WrappedAngle(call.args.angle), 120)
        /\ AngleAtLeast(NormalizeAngle(call.args.angle).angle, -44)
        /\ AngleAtMost(NormalizeAngle(call.args.angle).angle, 44)
        /\ NormalizeAngle(call.args.angle).relabel \in { 0, 1, 2 }
        /\ NormalizeAngle(call.args.angle).relabel = 0
              <=> ~ AbsAbove44(WrappedAngle(call.args.angle))

-----------------------------------------------------------------------------
(* Properties of the order of the quadrants of create_circular_grids *)

\* the sum over the pixels of the mask of their offset (x, y) from the pixel c
OffsetSum(mask, c) ==
    << CoordSum(mask, 2, MaxCoord(mask, 2)) - c[2] * Cardinality(mask),
       CoordSum(mask, 1, MaxCoord(mask, 1)) - c[1] * Cardinality(mask) >>

Dot(u, v) == u[1] * v[1] + u[2] * v[2]

Cross(u, v) == u[1] * v[2] - u[2] * v[1]

\* the mask is a whole disk: it is its own mirror image through its centroid
WholeDisk(mask) ==
    \A p \in mask :
        << 2 * IntCentroid(mask)[1] - p[1], 2 * IntCentroid(mask)[2] - p[2] >> \in mask

\* four non-empty quadrants were returned for an angle in [-120, 120]
QuadrantsReturned ==
    /\ CircCallRan("create_circular_grids")
    /\ ret.raised = "no"
    /\ \A k \in 1 .. 4 : ret.masks[k] # { }
    /\ WholeDisk(call.args.circle_mask)
    /\ AngleAtLeast(call.args.angle, -120)
    /\ AngleAtMost(call.args.angle, 120)

\* the offset of the quadrant at position k (1 .. 4) from the centre
QuadrantOffset(r, k) == OffsetSum(r.masks[k], IntCentroid(call.args.circle_mask))

\* the result for the angle one degree nearer to 0
OneDegreeBefore ==
    create_circular_grids(call.args.circle_mask,
                          << call.args.angle[1] - Sign(call.args.angle[1]), 0 >>)

\* C23 (create_circular_grids): for an angle in [-120, 120] the quadrants at
\* positions 0 and 2 and those at positions 1 and 3 lie on opposite sides of
\* the centre, the four positions walk the disk in the sense superior,
\* image-left, inferior, image-right, and at 45 and -45 degrees the quadrants
\* at positions 1 and 3 lie on the side they lie on at 44 and -44 degrees.
C23_QuadrantOrderKeepsSense ==
    QuadrantsReturned =>
        /\ Dot(QuadrantOffset(ret, 1), QuadrantOffset(ret, 3)) < 0
        /\ Dot(QuadrantOffset(ret, 2), QuadrantOffset(ret, 4)) < 0
        /\ Cross(QuadrantOffset(ret, 1), QuadrantOffset(ret, 2)) < 0
        /\ Cross(QuadrantOffset(ret, 2), QuadrantOffset(ret, 3)) < 0
        /\ ( call.args.angle \in { << 45, 0 >>, << -45, 0 >> }
             /\ OneDegreeBefore.raised = "no" ) =>
              /\ Dot(QuadrantOffset(ret, 2), QuadrantOffset(OneDegreeBefore, 2)) > 0
              /\ Dot(QuadrantOffset(ret, 4), QuadrantOffset(OneDegreeBefore, 4)) > 0

\* the raw quadrants [top, bottom, left, right] of lines 140-163: the two
\* components of the band and the two components of the rest of the mask
RawQuadrants(circle_mask, angle) ==
    With(TopBottomBand(circle_mask, IntCentroid(circle_mask), NormalizeAngle(angle).angle),
         LAMBDA band :
            With(<< Label(band \ { IntCentroid(circle_mask) }), Label(circle_mask \ band) >>,
                 LAMBDA props :
                    << ComponentOrEmpty(props[1], 1, Min(Len(props[1]), Len(props[2])))
                          \cup { IntCentroid(circle_mask) },
                       ComponentOrEmpty(props[1], 2, Min(Len(props[1]), Len(props[2]))),
                       ComponentOrEmpty(props[2], 1, Min(Len(props[1]), Len(props[2]))),
                       ComponentOrEmpty(props[2], 2, Min(Len(props[1]), Len(props[2]))) >>))

\* the table of the claim: the positions of the raw quadrants in the result,
\* by the sign of the angle used by the band test, the sign of the angle
\* given and the relabelling count
OrderTable(band_angle_not_negative, angle_sign, relabel) ==
    IF relabel \in { 1, 2 } /\ angle_sign > 0
    THEN IF band_angle_not_negative THEN << 3, 1, 2, 0 >> ELSE << 2, 1, 3, 0 >>
    ELSE IF relabel \in { 1, 2 } /\ angle_sign < 0
    THEN IF band_angle_not_negative THEN << 2, 1, 3, 0 >> ELSE << 3, 1, 2, 0 >>
    ELSE IF band_angle_not_negative THEN << 0, 2, 1, 3 >> ELSE << 0, 3, 1, 2 >>

\* C24 (create_circular_grids): the result is the list of the four raw
\* quadrants [top, bottom, left, right] permuted by a table: the reorder
\* [0,2,1,3] for a band angle >= 0 and [0,3,1,2] for a negative one, followed
\* for the counts 1 and 2 by [3,2,1,0] when the angle given is positive and
\* by [1,2,3,0] when it is negative, and by nothing for the count 0; every
\* raw quadrant takes exactly one position.
C24_OrderIsTablePermutation ==
    ( CircCallRan("create_circular_grids") /\ ret.raised = "no" ) =>
        With(OrderTable(NormalizeAngle(call.args.angle).angle[1] >= 0,
                        NormalizeAngle(call.args.angle).angle_sign,
                        NormalizeAngle(call.args.angle).relabel),
             LAMBDA order :
                /\ { order[i] : i \in 1 .. 4 } = 0 .. 3
                /\ Len(ret.masks) = 4
                /\ ret.masks = Reorder(RawQuadrants(call.args.circle_mask, call.args.angle),
                                       order))

\* a call with a negative angle and the relabelling count 2 returned
C24_Witness ==
    /\ CircCallRan("create_circular_grids")
    /\ ret.raised = "no"
    /\ NormalizeAngle(call.args.angle).relabel = 2
    /\ NormalizeAngle(call.args.angle).angle_sign < 0
    /\ \A k \in 1 .. 4 : ret.masks[k] # { }

-----------------------------------------------------------------------------
(* Properties of the interpolation of measure_grid *)

\* the values of the pixels of the subfield with data that are nearest to p
NearestKnownValues(p, mask) ==
    { thick_map[q] : q \in { k \in KnownIn(mask) :
                               \A r \in KnownIn(mask) : Dist2(p, k) <= Dist2(p, r) } }

\* the subfield with every pixel without data given the value of a nearest
\* pixel of the subfield with data, the other pixels keeping their value
NearestKnownFills(mask) ==
    { [ p \in mask |-> IF p \in MissingIn(mask) THEN g[p] ELSE thick_map[p] ] :
        g \in { h \in [ MissingIn(mask) -> { thick_map[q] : q \in KnownIn(mask) } ] :
                  \A p \in MissingIn(mask) : h[p] \in NearestKnownValues(p, mask) } }

\* C25 (measure_grid, interp_missing): with interp on, in a subfield with
\* pixels without data and pixels with data, every pixel without data gets
\* the value of a nearest pixel of the subfield with data, whatever that
\* value is (0 included), every pixel with data keeps its value, and the
\* subfield's statistic is the one of the values so filled.
C25_FilledFromNearestKnown ==
    ( AggCallRan /\ call.interp /\ ret.raised = "no" ) =>
        \A k \in DOMAIN ret.grid_subgrids :
            With(SubfieldsOf(call)[k],
                 LAMBDA mask :
                    ( MissingIn(mask) # { } /\ KnownIn(mask) # { } ) =>
                        \E env \in Envs :
                            /\ \E g \in NearestKnownFills(mask) :
                                  \A p \in mask : InterpolatedSubfield(mask, env)[p] = g[p]
                            /\ Get(ret.grid_dict, ret.grid_subgrids[k])
                                  = Statistic(InterpolatedSubfield(mask, env), mask,
                                              call.dtype, env.platform))

-----------------------------------------------------------------------------
(* Properties of the halves of create_peripapillary_grid *)

\* the quadrants create_peripapillary_grid splits: positions 0 and 2 of the
\* result of create_circular_grids, lines 226-230
SplitQuadrants ==
    With(create_circular_grids(create_circular_mask(call.args.img_shape, call.args.centre,
                                                    << call.args.radius >>),
                               << call.args.angle[1], call.args.angle[2] + 1 >>),
         LAMBDA circ_4grids : << circ_4grids.masks[1], circ_4grids.masks[3] >>)

\* twice the signed area of the triangle centroid of quad, centre, p, times
\* the denominators of the centroid; the centre is (x, y), p is (row, column)
SideOfLine(p, quad, centre) ==
    With(Centroid(quad),
         LAMBDA cen :
            (centre[1] * cen[2][2] - cen[2][1]) * cen[1][2] * (p[1] - centre[2])
               - (centre[2] * cen[1][2] - cen[1][1]) * cen[2][2] * (p[2] - centre[1]))

\* the line from the centroid of quad to the centre goes down the image (1),
\* up the image (-1) or along a row (0)
LineHeading(quad, centre) ==
    With(Centroid(quad), LAMBDA cen : Sign(centre[2] * cen[1][2] - cen[1][1]))

\* p lies at a smaller column than the line does in the row of p
ImageLeftOfLine(p, quad, centre) ==
    SideOfLine(p, quad, centre) * LineHeading(quad, centre) > 0

\* p lies at a larger column than the line does in the row of p
ImageRightOfLine(p, quad, centre) ==
    SideOfLine(p, quad, centre) * LineHeading(quad, centre) < 0

HalvesBySide(quad) ==
    With(SplitQuadrant(quad, call.args.centre),
         LAMBDA halves :
            /\ halves.raised = "no"
            /\ halves.left \cup halves.right = quad
            /\ halves.left \cap halves.right = { }
            /\ LineHeading(quad, call.args.centre) # 0
            /\ \A p \in halves.left : ~ImageRightOfLine(p, quad, call.args.centre)
            /\ \A p \in halves.right : ~ImageLeftOfLine(p, quad, call.args.centre)
            /\ \E i \in DOMAIN ret.masks : \E j \in DOMAIN ret.masks :
                  /\ ret.masks[i] = halves.left \ ret.masks[7]
                  /\ ret.masks[j] = halves.right \ ret.masks[7])

\* C26 (create_peripapillary_grid): at every angle the superior and the
\* inferior quadrant are each split by the line through the quadrant's
\* centroid and the centre into two halves that partition the quadrant; the
\* half collected as left holds the pixels on the image-left of the line and
\* the half collected as right those on its image-right, whatever the sign
\* of the slope; both halves, less the central disk, are returned.
C26_HalvesByImageSide ==
    ( CircCallRan("create_peripapillary_grid") /\ ret.raised = "no" ) =>
        /\ HalvesBySide(SplitQuadrants[1])
        /\ HalvesBySide(SplitQuadrants[2])

-----------------------------------------------------------------------------
(* Properties of the failure paths of analyse *)

\* C27 (analyse): a scale that is neither a float nor an integer gets one
\* message, is dropped, and the analysis goes on without raising, the
\* metadata recording the scale None and the units "px".
C27_NonNumericScaleIgnored ==
    ( ScaleHandled /\ ~IsFloatOrInt(call.scale) /\ call.scale # NoScale ) =>
        /\ frame.pc # "TypeError"
        /\ ret = Pending \/ ret.raised = "no"
        /\ Cardinality(MessagesWith(NotFloatOrIntText)) = 1
        /\ \A i \in MessagesWith(NotFloatOrIntText) : frame.logging_list[i].arg = call.scale
        /\ frame.scale = NoScale
        /\ MetadataStored =>
              /\ Get(frame.metadata, "scale") = NoScale
              /\ Get(frame.metadata, "measurement_units") = "px"


\* the block of analyse that segments the image has run and found no disc
OdCentreMissing ==
    /\ call.fn = "analyse"
    /\ frame.pc \in { "location", "eye", "metadata", "features", "TypeError" }
    /\ MessagesWith(SegmentingText) # { }
    /\ frame.od_centre = << >>

\* C28 (analyse): when the optic-disc centre is not detected, one warning is
\* in the log and analyse stores the metadata without raising, for no
\* location given, for "Macula" and for "Optic disc".
C28_MissingDiscOnlyWarns ==
    OdCentreMissing =>
        /\ Cardinality(MessagesWith("WARNING: Optic disc not detected. Please check image.")) = 1
        /\ frame.pc # "TypeError"
        /\ ret = Pending \/ ret.raised = "no"
        /\ MetadataStored =>
              { "eye", "location", "scale", "measurement_units" } \subseteq Keys(frame.metadata)

-----------------------------------------------------------------------------
(* Properties of what measure_grid returns *)

\* the grid of the call is built and each subfield holds a measurement above
\* 0, so that the interpolation of every subfield has a pixel to start from
EverySubfieldSeeded ==
    /\ SubfieldsOf(call) # << >>
    /\ \A k \in DOMAIN SubfieldsOf(call) : \E p \in SubfieldsOf(call)[k] : thick_map[p] > 0

\* C29 (measure_grid): whatever interp, dtype, plot and slo, a call whose
\* grid is built and whose subfields can all be interpolated returns the
\* three parts: the statistics, the volumes (a mapping without entries for
\* dtype float64) and the log list.
C29_ReturnsThreeParts ==
    ( AggCallRan /\ EverySubfieldSeeded ) =>
        /\ ret.raised = "no"
        /\ { "grid_dict", "gridvol_dict", "logging_list" } \subseteq DOMAIN ret
        /\ call.dtype = "float64" => ret.gridvol_dict = << >>

-----------------------------------------------------------------------------
(* Properties of the grid lines of create_square_grid *)

\* box_idx_lr, the lines that slice the rows (line 438), and box_idx_ud, the
\* lines that slice the columns, of the call
RowSliceLines ==
    BoxIdx(ForceCenter(call.args.center, call.args.img_shape)[2], call.args.scalex,
           call.args.N_grid, call.args.grid_size)

ColSliceLines ==
    BoxIdx(ForceCenter(call.args.center, call.args.img_shape)[1], call.args.scalex,
           call.args.N_grid, call.args.grid_size)

\* the bounds check of line 406 passed: no fallback was returned
BoundsCheckPassed ==
    SquareCallRan("create_square_grid") /\ ~( ret.raised = "no" /\ ret.fallback )

SliceLinesInsideImage ==
    /\ \A i \in DOMAIN RowSliceLines : RowSliceLines[i] < call.args.img_shape[1]
    /\ \A i \in DOMAIN ColSliceLines : ColSliceLines[i] < call.args.img_shape[2]

\* C30 (create_square_grid): on square and non-square images, when the
\* bounds check passes the call returns the cells, every line that slices
\* rows is below the image height and every line that slices columns below
\* the image width, and every cell holds at least one pixel.
C30_PassedCheckKeepsCellsInside ==
    BoundsCheckPassed =>
        /\ ret.raised = "no"
        /\ SliceLinesInsideImage
        /\ \A k \in DOMAIN ret.tuple[1] : Support(ret.tuple[1][k]) # { }

=============================================================================
